---- MODULE Spec2Model ----
(***************************************************************************)
(* A model of bnprtr/reflect: the descriptor registry and its hot reload,  *)
(* the documentation handlers that read it, the "Try It" gateway handler,  *)
(* the three transport invokers and the security/config helpers.           *)
(*                                                                         *)
(* Two specifications share the definitions:                               *)
(*   Spec        the gateway: one invocation at a time through             *)
(*               handleTryItInvoke and the invokers (also called directly, *)
(*               as their exported API allows), over a loaded config.      *)
(*   SpecReload  the watcher, the reload goroutines and SetRegistry,       *)
(*               interleaved with the handlers' reads of the registry.     *)
(***************************************************************************)
EXTENDS Integers, Sequences, FiniteSets, TLC

(***************************************************************************)
(* Bounds of the model.                                                    *)
(***************************************************************************)
\* Number of successive contents of the proto root directory.
MaxVersion == 3
\* Number of reload goroutines (time.AfterFunc callbacks) that may overlap.
MaxReloaders == 2

(***************************************************************************)
(* Raw descriptor sets.  The proto root holds FilesPerVersion files; in    *)
(* version v of the directory, file i declares one service with the        *)
(* methods 1..v, two messages (one of them renamed at each version) and    *)
(* one enum.  Names are fully qualified: <<"svc", i>> is a service,        *)
(* <<"svc", i, k>> its method k ("pkg.Service/Method").                    *)
(***************************************************************************)
FilesPerVersion == 2

FileDescriptor(v, i) ==
    [ service  |-> <<"svc", i>>,
      methods  |-> { <<"svc", i, k>> : k \in 1..v },
      messages |-> { <<"msg", i, 0>>, <<"msg", i, v>> },
      enums    |-> { <<"enum", i, v>> } ]

DescriptorSet(v) == [ i \in 1..FilesPerVersion |-> FileDescriptor(v, i) ]

(***************************************************************************)
(* descriptor.Registry: the four name-keyed maps.  A descriptor is the     *)
(* record [name, ver]: the handle into the parsed schema of version ver.   *)
(* id names the Registry object (one per buildRegistry call); indexed is   *)
(* the number of files RangeFiles has visited.                             *)
(***************************************************************************)
Descriptors(names, v) == [ n \in names |-> [name |-> n, ver |-> v] ]

\* registry := &Registry{... make(map) ...}
EmptyRegistry(id, v) ==
    [ id             |-> id,
      ver            |-> v,
      indexed        |-> 0,
      ServicesByName |-> << >>,
      MethodsByName  |-> << >>,
      MessagesByName |-> << >>,
      EnumsByName    |-> << >>,
      CommentIndex   |-> << >> ]

\* One call of the RangeFiles callback: index the services, methods,
\* messages and enums of file fd into the registry (maps are overwritten
\* key by key: last write wins).
IndexFile(reg, fd) ==
    [ reg EXCEPT
        !.indexed        = @ + 1,
        !.ServicesByName = Descriptors({fd.service}, reg.ver) @@ @,
        !.MethodsByName  = Descriptors(fd.methods, reg.ver) @@ @,
        !.MessagesByName = Descriptors(fd.messages, reg.ver) @@ @,
        !.EnumsByName    = Descriptors(fd.enums, reg.ver) @@ @ ]

RECURSIVE IndexFiles(_, _, _)
IndexFiles(reg, fds, n) ==
    IF n = 0 THEN reg
    ELSE IndexFile(IndexFiles(reg, fds, n - 1), fds[n])

\* buildRegistry, run to completion: every file of the set indexed.
buildRegistry(id, v) ==
    IndexFiles(EmptyRegistry(id, v), DescriptorSet(v), FilesPerVersion)

\* The RangeFiles callback returns true: the iteration goes on to the next
\* file, and buildRegistry returns once every file has been visited.
\* (Variant: the callback returning false would end it after one file.)
RangeFilesStopsEarly(reg) == reg.indexed >= 1
RangeFilesDone(reg) == reg.indexed = FilesPerVersion

\* The names a descriptor set declares, by kind.
AllServices(v) == { DescriptorSet(v)[i].service : i \in 1..FilesPerVersion }
AllMethods(v)  == UNION { DescriptorSet(v)[i].methods : i \in 1..FilesPerVersion }
AllMessages(v) == UNION { DescriptorSet(v)[i].messages : i \in 1..FilesPerVersion }
AllEnums(v)    == UNION { DescriptorSet(v)[i].enums : i \in 1..FilesPerVersion }

\* A registry is whole (fully indexed) when its four maps hold every name of
\* the descriptor set it was built from, and only those.
WholeRegistry(reg) ==
    /\ DOMAIN reg.ServicesByName = AllServices(reg.ver)
    /\ DOMAIN reg.MethodsByName  = AllMethods(reg.ver)
    /\ DOMAIN reg.MessagesByName = AllMessages(reg.ver)
    /\ DOMAIN reg.EnumsByName    = AllEnums(reg.ver)

\* The nil *Registry (no proto root given) and the nil descriptor.
NilRegistry == EmptyRegistry(-1, 0)
NilDescriptor == [name |-> <<"nil">>, ver |-> 0]

\* Registry.FindMethod and the other lookups: (value, found).
FindIn(map, fullName) ==
    IF fullName \in DOMAIN map
    THEN [value |-> map[fullName], found |-> TRUE]
    ELSE [value |-> NilDescriptor, found |-> FALSE]

FindService(reg, fullName) == FindIn(reg.ServicesByName, fullName)
FindMethod(reg, fullName)  == FindIn(reg.MethodsByName, fullName)
FindMessage(reg, fullName) == FindIn(reg.MessagesByName, fullName)
FindEnum(reg, fullName)    == FindIn(reg.EnumsByName, fullName)

(***************************************************************************)
(* Descriptor sets with structure.  A file is the record of its            *)
(* FileDescriptorProto: Package, Service, MessageType, EnumType and        *)
(* SourceCodeInfo; a message has Name, Field, NestedType and EnumType.  A  *)
(* fully-qualified name is the sequence of its dot-separated parts, a      *)
(* method's name ends with the parts "/" and the method ("pkg.Svc/Get").   *)
(***************************************************************************)
\* protoreflect's FullName of a child: the parent's full name, a dot, the
\* child's name (the package alone when the package is the parent).
ChildFullName(parent, name) == Append(parent, name)

\* fmt.Sprintf("%s/%s", serviceName, method.Name())
MethodKey(serviceName, method) == serviceName \o <<"/", method>>

\* The descriptor handed out for a name of a structured set.
DescriptorOf(fullName) == [name |-> fullName, ver |-> 0]

\* indexEnums: every enum of the list under its full name.
RECURSIVE indexEnumsUpTo(_, _, _, _)
indexEnumsUpTo(enums, n, parent, reg) ==
    IF n = 0 THEN reg
    ELSE LET enumName == ChildFullName(parent, enums[n].Name)
         IN  [ indexEnumsUpTo(enums, n - 1, parent, reg) EXCEPT
                 !.EnumsByName = (enumName :> DescriptorOf(enumName)) @@ @ ]
indexEnums(enums, parent, reg) == indexEnumsUpTo(enums, Len(enums), parent, reg)

\* (Variant: only the messages of the list, nothing nested in them.)
RECURSIVE indexMessagesTopLevelUpTo(_, _, _, _)
indexMessagesTopLevelUpTo(messages, n, parent, reg) ==
    IF n = 0 THEN reg
    ELSE LET msgName == ChildFullName(parent, messages[n].Name)
         IN  [ indexMessagesTopLevelUpTo(messages, n - 1, parent, reg) EXCEPT
                 !.MessagesByName = (msgName :> DescriptorOf(msgName)) @@ @ ]
indexMessagesTopLevel(messages, parent, reg) ==
    indexMessagesTopLevelUpTo(messages, Len(messages), parent, reg)

\* indexMessages: each message of the list under its full name, then its
\* nested messages (recursively) and its nested enums.
RECURSIVE indexMessagesUpTo(_, _, _, _)
RECURSIVE indexMessages(_, _, _)
indexMessagesUpTo(messages, n, parent, reg) ==
    IF n = 0 THEN reg
    ELSE LET before  == indexMessagesUpTo(messages, n - 1, parent, reg)
             msg     == messages[n]
             msgName == ChildFullName(parent, msg.Name)
             stored  == [ before EXCEPT
                            !.MessagesByName = (msgName :> DescriptorOf(msgName)) @@ @ ]
         IN  indexEnums(msg.EnumType, msgName,
                        indexMessages(msg.NestedType, msgName, stored))
indexMessages(messages, parent, reg) ==
    indexMessagesUpTo(messages, Len(messages), parent, reg)

\* The methods of one service, under "service/method".
RECURSIVE indexMethodsUpTo(_, _, _, _)
indexMethodsUpTo(methods, n, serviceName, reg) ==
    IF n = 0 THEN reg
    ELSE LET methodName == MethodKey(serviceName, methods[n].Name)
         IN  [ indexMethodsUpTo(methods, n - 1, serviceName, reg) EXCEPT
                 !.MethodsByName = (methodName :> DescriptorOf(methodName)) @@ @ ]

RECURSIVE indexServicesUpTo(_, _, _, _)
indexServicesUpTo(services, n, package, reg) ==
    IF n = 0 THEN reg
    ELSE LET service     == services[n]
             serviceName == ChildFullName(package, service.Name)
             before      == indexServicesUpTo(services, n - 1, package, reg)
             stored      == [ before EXCEPT
                                !.ServicesByName =
                                    (serviceName :> DescriptorOf(serviceName)) @@ @ ]
         IN  indexMethodsUpTo(service.Method, Len(service.Method), serviceName, stored)

\* The RangeFiles callback of buildRegistry on a structured file.
IndexFileDescriptor(reg, fd) ==
    LET services == indexServicesUpTo(fd.Service, Len(fd.Service), fd.Package, reg)
        messages == indexMessages(fd.MessageType, fd.Package, services)
    IN  [ indexEnums(fd.EnumType, fd.Package, messages) EXCEPT !.indexed = @ + 1 ]

RECURSIVE RangeFiles(_, _, _)
RangeFiles(files, n, reg) ==
    IF n = 0 THEN reg
    ELSE IndexFileDescriptor(RangeFiles(files, n - 1, reg), files[n])

(***************************************************************************)
(* buildCommentIndex.  A location is (Path, LeadingComments); NoComment is *)
(* the absent or empty comment.                                            *)
(***************************************************************************)
NoComment == << >>

\* extractComment: the first location of that path with a non-empty leading
\* comment.
extractComment(sourceInfo, path) ==
    LET hits == { i \in DOMAIN sourceInfo.Location :
                    /\ sourceInfo.Location[i].Path = path
                    /\ sourceInfo.Location[i].LeadingComments # NoComment }
    IN  IF sourceInfo.nil \/ hits = {} THEN NoComment
        ELSE sourceInfo.Location[CHOOSE i \in hits : \A j \in hits : i <= j].LeadingComments

\* fmt.Sprintf("%s.%s", package, ...): the package, a dot, the rest (an
\* empty package leaves an empty first part).
SprintfDot(package, rest) == (IF package = << >> THEN <<"">> ELSE package) \o rest

\* registry.CommentIndex[key] = comment, when the comment is not empty.
PutComment(index, key, comment) ==
    IF comment = NoComment THEN index ELSE (key :> comment) @@ index

\* The members of one element (fields of a message, values of an enum,
\* methods of a service): path + (2, i), key made of the package, the
\* owner's own name and the member's name.
RECURSIVE extractMemberComments(_, _, _, _, _, _)
extractMemberComments(sourceInfo, members, n, index, path, keyOf) ==
    IF n = 0 THEN index
    ELSE PutComment(extractMemberComments(sourceInfo, members, n - 1, index, path, keyOf),
                    keyOf \o <<members[n].Name>>,
                    extractComment(sourceInfo, path \o <<2, n - 1>>))

\* extractEnumComments
extractEnumComments(sourceInfo, enum, index, path, packageName) ==
    LET own == PutComment(index, SprintfDot(packageName, <<enum.Name>>),
                          extractComment(sourceInfo, path))
    IN  extractMemberComments(sourceInfo,
                              [i \in DOMAIN enum.Value |-> [Name |-> enum.Value[i]]],
                              Len(enum.Value), own, path,
                              SprintfDot(packageName, <<enum.Name>>))

RECURSIVE extractEnumsUpTo(_, _, _, _, _, _, _)
extractEnumsUpTo(sourceInfo, enums, n, index, path, tag, packageName) ==
    IF n = 0 THEN index
    ELSE extractEnumComments(sourceInfo, enums[n],
             extractEnumsUpTo(sourceInfo, enums, n - 1, index, path, tag, packageName),
             path \o <<tag, n - 1>>, packageName)

\* extractMessageComments: the message, its fields, its nested messages
\* (path + (3, i)) and its nested enums (path + (4, i)); packageName is
\* passed down as it came in.
RECURSIVE extractMessageComments(_, _, _, _, _)
RECURSIVE extractMessagesUpTo(_, _, _, _, _, _, _)
extractMessageComments(sourceInfo, message, index, path, packageName) ==
    LET own    == PutComment(index, SprintfDot(packageName, <<message.Name>>),
                             extractComment(sourceInfo, path))
        fields == extractMemberComments(sourceInfo, message.Field, Len(message.Field),
                                        own, path,
                                        SprintfDot(packageName, <<message.Name>>))
        nested == extractMessagesUpTo(sourceInfo, message.NestedType,
                                      Len(message.NestedType), fields, path, 3,
                                      packageName)
    IN  extractEnumsUpTo(sourceInfo, message.EnumType, Len(message.EnumType), nested,
                         path, 4, packageName)
extractMessagesUpTo(sourceInfo, messages, n, index, path, tag, packageName) ==
    IF n = 0 THEN index
    ELSE extractMessageComments(sourceInfo, messages[n],
             extractMessagesUpTo(sourceInfo, messages, n - 1, index, path, tag, packageName),
             path \o <<tag, n - 1>>, packageName)

\* The services of a file (path (6, i)) and their methods, keyed
\* "package.Service/Method".
RECURSIVE extractServicesUpTo(_, _, _, _)
extractServicesUpTo(file, services, n, index) ==
    IF n = 0 THEN index
    ELSE LET before == extractServicesUpTo(file, services, n - 1, index)
             service == services[n]
             own == PutComment(before, SprintfDot(file.Package, <<service.Name>>),
                               extractComment(file.SourceCodeInfo, <<6, n - 1>>))
         IN  extractMemberComments(file.SourceCodeInfo, service.Method,
                                   Len(service.Method), own, <<6, n - 1>>,
                                   SprintfDot(file.Package, <<service.Name, "/">>))

\* buildCommentIndex: file after file; a file without SourceCodeInfo is
\* skipped.
RECURSIVE buildCommentIndexUpTo(_, _, _)
buildCommentIndexUpTo(files, n, index) ==
    IF n = 0 THEN index
    ELSE LET before == buildCommentIndexUpTo(files, n - 1, index)
             file   == files[n]
             services == extractServicesUpTo(file, file.Service, Len(file.Service), before)
             messages == extractMessagesUpTo(file.SourceCodeInfo, file.MessageType,
                                             Len(file.MessageType), services, << >>, 4,
                                             file.Package)
         IN  IF file.SourceCodeInfo.nil THEN before
             ELSE extractEnumsUpTo(file.SourceCodeInfo, file.EnumType,
                                   Len(file.EnumType), messages, << >>, 5, file.Package)
buildCommentIndex(fdSet, registry) ==
    [ registry EXCEPT !.CommentIndex = buildCommentIndexUpTo(fdSet, Len(fdSet), @) ]

(***************************************************************************)
(* internal/descriptor/examplejson.go.  A schema is a function from        *)
(* message full names to the list of the message's fields (what            *)
(* protoreflect tells of each field).  A generated value is the set of its *)
(* paths: an object contributes the path <<"{">> and, under each key, the  *)
(* paths of the member; an array <<"[">> and its items under "0", "1"; a   *)
(* scalar the parts of its text.  err is the error returned.               *)
(***************************************************************************)
DefaultMaxDepth == 5

Value(paths) == [paths |-> paths, err |-> FALSE]
Failure == [paths |-> {}, err |-> TRUE]
Under(key, value) == { key \o p : p \in value.paths }

\* generateEnumValue: the first value with a non-zero number, else the
\* first value, else "UNKNOWN".
generateEnumValue(enum) ==
    LET nonZero == { i \in DOMAIN enum : enum[i].Number # 0 }
    IN  IF nonZero # {}
        THEN Value({<<enum[CHOOSE i \in nonZero : \A j \in nonZero : i <= j].Name>>})
        ELSE IF Len(enum) > 0 THEN Value({<<enum[1].Name>>})
        ELSE Value({<<"UNKNOWN">>})

\* generateWellKnownType: the fixed examples, by message full name.
WellKnownTypes ==
    [ n \in { "google.protobuf.Timestamp", "google.protobuf.Duration",
              "google.protobuf.Any", "google.protobuf.Struct",
              "google.protobuf.FieldMask", "google.protobuf.StringValue",
              "google.protobuf.Int32Value", "google.protobuf.Int64Value",
              "google.protobuf.UInt32Value", "google.protobuf.UInt64Value",
              "google.protobuf.FloatValue", "google.protobuf.DoubleValue",
              "google.protobuf.BoolValue", "google.protobuf.BytesValue",
              "google.protobuf.Empty" } |->
        CASE n = "google.protobuf.Timestamp" ->
               {<<"{">>, <<"seconds", "1640995200">>, <<"nanos", "0">>}
          [] n = "google.protobuf.Duration" ->
               {<<"{">>, <<"seconds", "300">>, <<"nanos", "0">>}
          [] n = "google.protobuf.Any" ->
               {<<"{">>, <<"@type", "type.googleapis.com/google.protobuf.StringValue">>,
                <<"value", "example value">>}
          [] n = "google.protobuf.Struct" ->
               {<<"{">>, <<"fields", "{">>, <<"fields", "example_key", "{">>,
                <<"fields", "example_key", "string_value", "example value">>}
          [] n = "google.protobuf.FieldMask" ->
               {<<"{">>, <<"paths", "[">>, <<"paths", "0", "field1">>,
                <<"paths", "1", "field2.nested">>}
          [] n = "google.protobuf.StringValue" -> {<<"{">>, <<"value", "example string">>}
          [] n \in {"google.protobuf.Int32Value", "google.protobuf.Int64Value",
                    "google.protobuf.UInt32Value", "google.protobuf.UInt64Value"} ->
               {<<"{">>, <<"value", "42">>}
          [] n \in {"google.protobuf.FloatValue", "google.protobuf.DoubleValue"} ->
               {<<"{">>, <<"value", "3.14">>}
          [] n = "google.protobuf.BoolValue" -> {<<"{">>, <<"value", "true">>}
          [] n = "google.protobuf.BytesValue" -> {<<"{">>, <<"value", "ZXhhbXBsZSBkYXRh">>}
          [] OTHER -> {<<"{">>} ]

\* shouldIncludeField
shouldIncludeField(field, options) ==
    IF options.MinimalMode THEN field.Cardinality = "required"
    ELSE IF ~options.IncludeOptional /\ field.HasOptionalKeyword THEN FALSE
    ELSE TRUE

\* field.MapKey() and field.MapValue() of a map field, oneof.Fields().Get(0).
ScalarField(name, kind) ==
    [ Name |-> name, JSONName |-> name, Kind |-> kind, Message |-> "", Enum |-> << >>,
      Cardinality |-> "optional", HasOptionalKeyword |-> FALSE, IsMap |-> FALSE,
      Oneof |-> "", KeyKind |-> "", ValueKind |-> "" ]
MapKey(field) == ScalarField("key", field.KeyKind)
MapValue(field) == [ScalarField("value", field.ValueKind) EXCEPT !.Message = field.Message]
FirstOfOneof(fields, oneof) ==
    fields[CHOOSE i \in DOMAIN fields :
              /\ fields[i].Oneof = oneof
              /\ \A j \in DOMAIN fields : fields[j].Oneof = oneof => i <= j]

RECURSIVE generateMessageValue(_, _, _, _, _)
RECURSIVE generateFieldsUpTo(_, _, _, _, _, _)
RECURSIVE generateFieldValue(_, _, _, _, _, _)
RECURSIVE generateScalarValue(_, _, _, _, _)

\* generateScalarValue, by field.Kind().
generateScalarValue(schema, field, options, visited, depth) ==
    CASE field.Kind = "bool" -> Value({<<"true">>})
      [] field.Kind \in {"int32", "sint32", "sfixed32", "int64", "sint64", "sfixed64",
                         "uint32", "fixed32", "uint64", "fixed64"} -> Value({<<"42">>})
      [] field.Kind \in {"float", "double"} -> Value({<<"3.14">>})
      [] field.Kind = "string" -> Value({<<"example_", field.Name>>})
      [] field.Kind = "bytes" -> Value({<<"ZXhhbXBsZSBkYXRh">>})
      [] field.Kind = "enum" -> generateEnumValue(field.Enum)
      [] field.Kind = "message" ->
           generateMessageValue(schema, field.Message, options, visited, depth + 1)
      [] OTHER -> Failure

\* generateRepeatedValue: one item of a message kind, two of any other.
generateRepeatedValue(schema, field, options, visited, depth) ==
    LET item == generateScalarValue(schema, field, options, visited, depth)
    IN  IF item.err THEN Failure
        ELSE IF field.Kind = "message"
        THEN Value({<<"[">>} \cup Under(<<"0">>, item))
        ELSE Value({<<"[">>} \cup Under(<<"0">>, item) \cup Under(<<"1">>, item))

\* generateMapValue: two entries, the second key suffixed "_1".
generateMapValue(schema, field, options, visited, depth) ==
    LET keyValue   == generateScalarValue(schema, MapKey(field), options, visited, depth)
        valueValue == generateScalarValue(schema, MapValue(field), options, visited, depth)
    IN  IF keyValue.err \/ valueValue.err THEN Failure
        ELSE Value({<<"{">>}
                   \cup UNION { Under(k, valueValue) \cup Under(k \o <<"_1">>, valueValue) :
                                k \in keyValue.paths })

\* generateOneofValue: the value of the first field of the containing oneof.
generateOneofValue(schema, message, field, options, visited, depth) ==
    generateScalarValue(schema, FirstOfOneof(schema[message], field.Oneof), options,
                        visited, depth)

\* generateFieldValue
generateFieldValue(schema, message, field, options, visited, depth) ==
    CASE field.IsMap -> generateMapValue(schema, field, options, visited, depth)
      [] field.Cardinality = "repeated" ->
           generateRepeatedValue(schema, field, options, visited, depth)
      [] field.Oneof # "" ->
           generateOneofValue(schema, message, field, options, visited, depth)
      [] OTHER -> generateScalarValue(schema, field, options, visited, depth)

\* The fields loop of generateMessageValue: the first n fields; a later field
\* of the same JSON name replaces the earlier one.
generateFieldsUpTo(schema, message, n, options, visited, depth) ==
    IF n = 0 THEN Value({<<"{">>})
    ELSE LET before == generateFieldsUpTo(schema, message, n - 1, options, visited, depth)
             field  == schema[message][n]
             value  == generateFieldValue(schema, message, field, options, visited, depth)
         IN  IF before.err THEN before
             ELSE IF ~shouldIncludeField(field, options) THEN before
             ELSE IF value.err THEN Failure
             ELSE Value({ p \in before.paths : p[1] # field.JSONName }
                        \cup Under(<<field.JSONName>>, value))

\* generateMessageValue: the depth guard, the cycle guard (visited holds
\* the messages on the current recursion stack), the well-known types, the
\* fields.
generateMessageValue(schema, message, options, visited, depth) ==
    IF depth >= options.MaxDepth THEN Value({<<"{">>, <<"<max_depth_reached>", "true">>})
    ELSE IF message \in visited THEN Value({<<"{">>, <<"<recursive>", "true">>})
    ELSE IF message \in DOMAIN WellKnownTypes THEN Value(WellKnownTypes[message])
    ELSE generateFieldsUpTo(schema, message, Len(schema[message]), options,
                            visited \cup {message}, depth)

\* GenerateExampleJSON: a zero MaxDepth is the default; the value is
\* marshalled (json.MarshalIndent of maps, slices, strings, numbers and
\* booleans does not fail).
GenerateExampleJSON(schema, message, options) ==
    LET defaulted == IF options.MaxDepth = 0
                     THEN [options EXCEPT !.MaxDepth = DefaultMaxDepth]
                     ELSE options
    IN  IF message = "" THEN Failure
        ELSE generateMessageValue(schema, message, defaulted, {}, 0)

\* docs.BuildSearchIndex: the items of the registry it was built from.
BuildSearchIndex(reg) ==
    IF reg = NilRegistry THEN [of |-> -1, Items |-> {}]
    ELSE [ of    |-> reg.id,
           Items |-> DOMAIN reg.ServicesByName \cup DOMAIN reg.MethodsByName
                     \cup DOMAIN reg.MessagesByName \cup DOMAIN reg.EnumsByName ]

(***************************************************************************)
(* State.                                                                  *)
(***************************************************************************)
VARIABLES
    fsVersion,    \* the content of the proto root directory (a version)
    events,       \* fsnotify events queued on watcher.Events
    timer,        \* Watcher.Start's debounceTimer: "none" or "armed"
    reload,       \* the reload goroutines: pc, registry being built, index
    nextId,       \* the next Registry object buildRegistry allocates
    mu,           \* Server.mu: 0 when free, else the goroutine holding Lock
    registry,     \* Server.registry
    searchIndex,  \* Server.searchIndex
    handed,       \* the registries passed to NewWithTheme and SetRegistry
    doc,          \* the documentation handler in progress
    config,       \* Server.config, as config.Load returned it
    call,         \* the Try It invocation in progress
    lib,          \* the call of a package function in progress: name, input, result
    gen,          \* GenerateExampleJSON in progress: its recursion stack
    ctx,          \* the context of the invocation, and what the invoker holds open
    watch         \* Watcher.Start on a clock: its channel, its timer, what happened when

reloadVars == <<fsVersion, events, timer, reload, nextId, mu, registry,
                searchIndex, handed>>
vars == <<fsVersion, events, timer, reload, nextId, mu, registry,
          searchIndex, handed, doc, config, call, lib, gen, ctx, watch>>

Reloaders == 1..MaxReloaders

(***************************************************************************)
(* The watcher (Watcher.Start) and the reload callback of main.            *)
(***************************************************************************)
IdleReload == [pc |-> "idle", reg |-> NilRegistry, idx |-> BuildSearchIndex(NilRegistry)]

\* A .proto file of the root is written: the directory moves to its next
\* content and fsnotify queues an event.
FsWrite ==
    /\ fsVersion < MaxVersion
    /\ fsVersion' = fsVersion + 1
    /\ events' = events + 1
    /\ UNCHANGED <<timer, reload, nextId, mu, registry, searchIndex, handed,
                   doc, config, call, lib, gen, ctx, watch>>

\* Watcher.Start receives an event on a .proto file: the pending timer is
\* stopped and a new one armed (time.AfterFunc(w.debounce, ...)).
WatcherEvent ==
    /\ events > 0
    /\ events' = events - 1
    /\ timer' = "armed"
    /\ UNCHANGED <<fsVersion, reload, nextId, mu, registry, searchIndex,
                   handed, doc, config, call, lib, gen, ctx, watch>>

\* The debounce timer fires: its callback starts in a goroutine of its own.
TimerFire(r) ==
    /\ timer = "armed"
    /\ reload[r].pc = "idle"
    /\ timer' = "none"
    /\ reload' = [reload EXCEPT ![r].pc = "load"]
    /\ UNCHANGED <<fsVersion, events, nextId, mu, registry, searchIndex,
                   handed, doc, config, call, lib, gen, ctx, watch>>

\* descriptor.LoadDirectory up to buildRegistry's allocation: the files are
\* discovered and parsed; a parse error ends the reload (it is logged and
\* the server keeps its registry).
LoadDirectory(r, parsed) ==
    /\ reload[r].pc = "load"
    /\ IF parsed
       THEN /\ reload' = [reload EXCEPT ![r].pc = "build",
                                        ![r].reg = EmptyRegistry(nextId, fsVersion)]
            /\ nextId' = nextId + 1
       ELSE /\ reload' = [reload EXCEPT ![r] = IdleReload]
            /\ UNCHANGED nextId
    /\ UNCHANGED <<fsVersion, events, timer, mu, registry, searchIndex,
                   handed, doc, config, call, lib, gen, ctx, watch>>

\* buildRegistry: RangeFiles visits the next file.
BuildStep(r) ==
    /\ reload[r].pc = "build"
    /\ ~RangeFilesDone(reload[r].reg)
    /\ reload' = [reload EXCEPT ![r].reg =
                     IndexFile(@, DescriptorSet(@.ver)[@.indexed + 1])]
    /\ UNCHANGED <<fsVersion, events, timer, nextId, mu, registry,
                   searchIndex, handed, doc, config, call, lib, gen, ctx, watch>>

\* buildRegistry returns; srv.SetRegistry(newReg) builds the search index
\* of the new registry, outside the lock.
SetRegistryBuildIndex(r) ==
    /\ reload[r].pc = "build"
    /\ RangeFilesDone(reload[r].reg)
    /\ reload' = [reload EXCEPT ![r].pc = "lock",
                                ![r].idx = BuildSearchIndex(reload[r].reg)]
    /\ handed' = handed \cup {reload[r].reg}
    /\ UNCHANGED <<fsVersion, events, timer, nextId, mu, registry,
                   searchIndex, doc, config, call, lib, gen, ctx, watch>>

\* s.mu.Lock()
SetRegistryLock(r) ==
    /\ reload[r].pc = "lock"
    /\ mu = 0
    /\ mu' = r
    /\ reload' = [reload EXCEPT ![r].pc = "store_registry"]
    /\ UNCHANGED <<fsVersion, events, timer, nextId, registry, searchIndex,
                   handed, doc, config, call, lib, gen, ctx, watch>>

\* s.registry = registry
SetRegistryStoreRegistry(r) ==
    /\ reload[r].pc = "store_registry"
    /\ registry' = reload[r].reg
    /\ reload' = [reload EXCEPT ![r].pc = "store_index"]
    /\ UNCHANGED <<fsVersion, events, timer, nextId, mu, searchIndex,
                   handed, doc, config, call, lib, gen, ctx, watch>>

\* s.searchIndex = searchIndex
SetRegistryStoreIndex(r) ==
    /\ reload[r].pc = "store_index"
    /\ searchIndex' = reload[r].idx
    /\ reload' = [reload EXCEPT ![r].pc = "unlock"]
    /\ UNCHANGED <<fsVersion, events, timer, nextId, mu, registry, handed,
                   doc, config, call, lib, gen, ctx, watch>>

\* s.mu.Unlock(); the callback returns.
SetRegistryUnlock(r) ==
    /\ reload[r].pc = "unlock"
    /\ mu' = 0
    /\ reload' = [reload EXCEPT ![r] = IdleReload]
    /\ UNCHANGED <<fsVersion, events, timer, nextId, registry, searchIndex,
                   handed, doc, config, call, lib, gen, ctx, watch>>

\* (Variant: getRegistry copying the two fields without taking the lock.)
getRegistryUnlocked == TRUE
\* Server.getRegistry: RLock, copy both references, RUnlock.  The read lock
\* is held for the copy alone, so the copy is one step that waits while a
\* writer holds the lock.
getRegistryEnabled == mu = 0
getRegistry == [registry |-> registry, searchIndex |-> searchIndex]

(***************************************************************************)
(* The documentation handlers.  They read the fields s.registry and        *)
(* s.searchIndex directly, once per use and without s.mu: each read is a   *)
(* load of one pointer racing with SetRegistry's store.  It observes what  *)
(* the field holds at that moment, or what the handler loaded earlier.     *)
(***************************************************************************)
\* docs.BuildIndex: the services of the registry (nil: none).
BuildIndex(reg) ==
    IF reg = NilRegistry THEN {} ELSE DOMAIN reg.ServicesByName

\* The names a request may ask for: declared in some version, or in none.
TypeNames ==
    { <<"msg", 1, 0>>, <<"msg", 1, 1>>, <<"msg", 2, MaxVersion>>,
      <<"enum", 1, 1>>, <<"enum", 2, MaxVersion>>, <<"nope">> }

Queries == { "s", "svc", "msg" }

\* SearchIndex.Search, as far as the handlers of this model need it: every
\* name of these registries is shorter than 20 characters, so every item
\* has a score above 0 (calculateScore's bonus) and is a result.
Search(idx, query) ==
    IF Len(query) < 2 THEN {}
    ELSE idx.Items

IdleDoc ==
    [ pc |-> "idle", handler |-> "none", fullName |-> <<"nope">>,
      query |-> "", status |-> 0, services |-> {},
      view |-> NilDescriptor, results |-> {}, reg |-> NilRegistry,
      indexFrom |-> -1, viewFrom |-> -1 ]

\* GET /types/{fullName}: handleTypeDetail is entered.
TypeDetailStart(fullName) ==
    /\ doc.pc \in {"idle", "done"}
    /\ doc' = [IdleDoc EXCEPT !.pc = "index", !.handler = "typeDetail",
                              !.fullName = fullName]
    /\ UNCHANGED <<reloadVars, config, call, lib, gen, ctx, watch>>

\* A later unsynchronized read of s.registry in the same handler: the
\* field's current value, or (the compiler may keep the earlier load) the
\* value this handler loaded before.
ReadRegistryAgain(reuse) == IF reuse THEN doc.reg ELSE registry

\* index, err := docs.BuildIndex(s.registry)
TypeDetailBuildIndex ==
    /\ doc.pc = "index"
    /\ doc' = [doc EXCEPT !.pc = "message",
                          !.services = BuildIndex(registry),
                          !.reg = registry,
                          !.indexFrom = registry.id]
    /\ UNCHANGED <<reloadVars, config, call, lib, gen, ctx, watch>>

\* messageView, err := docs.BuildMessageView(s.registry, fullName); when
\* found, the page is rendered with the sidebar index built before.
TypeDetailBuildMessageView(reuse) ==
    /\ doc.pc = "message"
    /\ LET reg   == ReadRegistryAgain(reuse)
           found == reg # NilRegistry /\ FindMessage(reg, doc.fullName).found
       IN  doc' = IF found
                  THEN [doc EXCEPT !.pc = "done", !.status = 200,
                            !.view = FindMessage(reg, doc.fullName).value,
                            !.reg = reg,
                            !.viewFrom = reg.id]
                  ELSE [doc EXCEPT !.pc = "enum", !.reg = reg]
    /\ UNCHANGED <<reloadVars, config, call, lib, gen, ctx, watch>>

\* enumView, err := docs.BuildEnumView(s.registry, fullName); else 404.
TypeDetailBuildEnumView(reuse) ==
    /\ doc.pc = "enum"
    /\ LET reg   == ReadRegistryAgain(reuse)
           found == reg # NilRegistry /\ FindEnum(reg, doc.fullName).found
       IN  doc' = IF found
                  THEN [doc EXCEPT !.pc = "done", !.status = 200,
                            !.view = FindEnum(reg, doc.fullName).value,
                            !.reg = reg,
                            !.viewFrom = reg.id]
                  ELSE [doc EXCEPT !.pc = "done", !.status = 404,
                            !.reg = reg,
                            !.viewFrom = reg.id]
    /\ UNCHANGED <<reloadVars, config, call, lib, gen, ctx, watch>>

\* GET /api/search?q=...: handleSearch, whole (one read of s.searchIndex).
HandleSearch(query) ==
    /\ doc.pc \in {"idle", "done"}
    /\ doc' = IF Len(query) < 2
              THEN [IdleDoc EXCEPT !.pc = "done", !.handler = "search",
                         !.query = query, !.status = 200]
              ELSE [IdleDoc EXCEPT !.pc = "done", !.handler = "search",
                         !.query = query, !.status = 200,
                         !.results = Search(searchIndex, query),
                         !.indexFrom = searchIndex.of,
                         !.viewFrom = searchIndex.of]
    /\ UNCHANGED <<reloadVars, config, call, lib, gen, ctx, watch>>

(***************************************************************************)
(* Strings the code takes apart are tuples of characters.                  *)
(***************************************************************************)
Letters == {"a", "b", "c", "h", "p", "s", "t"}

StrHTTP       == <<"h", "t", "t", "p">>
StrHTTPColon  == <<"h", "t", "t", "p", ":", "/", "/">>
StrHTTPSColon == <<"h", "t", "t", "p", "s", ":", "/", "/">>

URLPlain      == StrHTTPColon \o <<"a">>          \* http://a
URLSecure     == StrHTTPSColon \o <<"b">>         \* https://b
URLSlash      == StrHTTPSColon \o <<"c", "/">>    \* https://c/
URLNoHost     == StrHTTPSColon                    \* https://
URLNoScheme   == <<"a", "b", "c">>                \* abc
URLBadScheme  == <<":", "/", "/", "a">>           \* ://a
URLEmpty      == << >>

\* s[:n] of Go: defined only when n <= len(s).
Prefix(s, n) == SubSeq(s, 1, n)
\* strings.TrimSuffix(s, "/")
TrimSlash(s) ==
    IF Len(s) > 0 /\ s[Len(s)] = "/" THEN SubSeq(s, 1, Len(s) - 1) ELSE s

\* Index of the first occurrence of character c in s at or after position
\* from, or 0.
RECURSIVE IndexFrom(_, _, _)
IndexFrom(s, c, from) ==
    IF from > Len(s) THEN 0
    ELSE IF s[from] = c THEN from
    ELSE IndexFrom(s, c, from + 1)

\* net/url.Parse, for the characters of this model: the scheme is the run
\* of letters before the first ':' (a leading ':' is an error), the host
\* what follows "//" up to the next '/'; what follows the last ':' of the
\* host must be digits (validOptionalPort), else an error.
Digits == {"0", "1", "2", "3", "4", "5", "6", "7", "8", "9"}
RECURSIVE LastIndex(_, _, _)
LastIndex(s, c, from) ==
    IF from = 0 THEN 0
    ELSE IF s[from] = c THEN from
    ELSE LastIndex(s, c, from - 1)
RECURSIVE LettersEnd(_, _)
LettersEnd(s, i) ==
    IF i > Len(s) \/ s[i] \notin Letters THEN i ELSE LettersEnd(s, i + 1)

urlParse(u) ==
    LET e       == LettersEnd(u, 1)
        colon   == e <= Len(u) /\ u[e] = ":"
        scheme  == IF colon /\ e > 1 THEN Prefix(u, e - 1) ELSE << >>
        rest    == IF colon /\ e > 1 THEN SubSeq(u, e + 1, Len(u)) ELSE u
        hasAuth == Len(rest) >= 2 /\ rest[1] = "/" /\ rest[2] = "/"
        after   == IF hasAuth THEN SubSeq(rest, 3, Len(rest)) ELSE << >>
        slash   == IndexFrom(after, "/", 1)
        host    == IF slash = 0 THEN after ELSE Prefix(after, slash - 1)
        port    == LastIndex(host, ":", Len(host))
        badPort == port > 0 /\ \E k \in (port + 1) .. Len(host) : host[k] \notin Digits
    IN  [ err    |-> (colon /\ e = 1) \/ badPort,
          Scheme |-> scheme,
          Host   |-> host ]

(***************************************************************************)
(* internal/config: Config, Environment, Load, Validate, GetEnvironment.   *)
(***************************************************************************)
DefaultMaxRequestBodyBytes == 1048576
DefaultRequestTimeoutSeconds == 15
DefaultTransport == "connect"

ValidTransports == {"connect", "grpc", "grpc-web"}

\* Header names are <<name, casing>>: the same name in lower case, in the
\* canonical MIME form of net/http, or in another casing.
ToLower(h) == <<h[1], "lower">>
CanonicalMIMEHeaderKey(h) == <<h[1], "canon">>

\* A variant that does not ask for a host.
EnvironmentValidateNoHostCheck(e) ==
    LET u == urlParse(e.BaseURL)
    IN  IF e.Name = "" THEN "environment name is required"
        ELSE IF e.BaseURL = << >> THEN "baseURL is required"
        ELSE IF u.err THEN "invalid baseURL"
        ELSE IF u.Scheme = << >> THEN "baseURL must include a scheme"
        ELSE IF e.Transport # "" /\ e.Transport \notin ValidTransports
             THEN "invalid transport"
        ELSE ""

\* Environment.Validate: the error, or "" with the default transport applied.
EnvironmentValidate(e) ==
    LET u == urlParse(e.BaseURL)
    IN  IF e.Name = "" THEN "environment name is required"
        ELSE IF e.BaseURL = << >> THEN "baseURL is required"
        ELSE IF u.err THEN "invalid baseURL"
        ELSE IF u.Scheme = << >> THEN "baseURL must include a scheme"
        ELSE IF u.Host = << >> THEN "baseURL must include a host"
        ELSE IF e.Transport # "" /\ e.Transport \notin ValidTransports
             THEN "invalid transport"
        ELSE ""

ApplyDefaultTransport(e) ==
    IF e.Transport = "" THEN [e EXCEPT !.Transport = DefaultTransport] ELSE e

\* Config.Validate: environments in order (duplicate name first, then the
\* environment itself), then the limits.
RECURSIVE ValidateEnvironments(_, _)
ValidateEnvironments(envs, i) ==
    IF i > Len(envs) THEN ""
    ELSE IF \E j \in 1..(i - 1) : envs[j].Name = envs[i].Name
         THEN "duplicate environment name"
    ELSE IF EnvironmentValidate(envs[i]) # "" THEN EnvironmentValidate(envs[i])
    ELSE ValidateEnvironments(envs, i + 1)

ConfigValidate(c) ==
    IF ValidateEnvironments(c.Environments, 1) # ""
    THEN ValidateEnvironments(c.Environments, 1)
    ELSE IF c.MaxRequestBodyBytes < 0 THEN "maxRequestBodyBytes must be non-negative"
    ELSE IF c.RequestTimeoutSeconds < 0 THEN "requestTimeoutSeconds must be non-negative"
    ELSE ""

\* config.Load after the YAML is parsed: defaults, then validation.
ApplyDefaults(c) ==
    [ c EXCEPT
        !.MaxRequestBodyBytes =
            IF @ = 0 THEN DefaultMaxRequestBodyBytes ELSE @,
        !.RequestTimeoutSeconds =
            IF @ = 0 THEN DefaultRequestTimeoutSeconds ELSE @ ]

Load(raw) ==
    LET c == ApplyDefaults(raw)
    IN  [ err |-> ConfigValidate(c),
          cfg |-> [ c EXCEPT !.Environments =
                      [ i \in DOMAIN c.Environments |->
                          ApplyDefaultTransport(c.Environments[i]) ] ] ]

NilEnvironment ==
    [ Name |-> "", BaseURL |-> << >>, Transport |-> "",
      TLS |-> [InsecureSkipVerify |-> FALSE], DefaultHeaders |-> << >> ]

\* Config.GetEnvironment: the first environment of that name.
RECURSIVE GetEnvironmentFrom(_, _, _)
GetEnvironmentFrom(envs, name, i) ==
    IF i > Len(envs) THEN [env |-> NilEnvironment, err |-> TRUE]
    ELSE IF envs[i].Name = name THEN [env |-> envs[i], err |-> FALSE]
    ELSE GetEnvironmentFrom(envs, name, i + 1)

\* (Variant: the first environment, whatever the name.)
GetEnvironmentFirst(c, name) ==
    IF Len(c.Environments) = 0 THEN [env |-> NilEnvironment, err |-> TRUE]
    ELSE [env |-> c.Environments[1], err |-> FALSE]
GetEnvironment(c, name) == GetEnvironmentFrom(c.Environments, name, 1)

\* Config.IsHeaderAllowed: no allowlist allows every header; otherwise the
\* first allowlist entry equal to the header once both are lower-cased.
IsHeaderAllowed(c, header) ==
    IF Len(c.HeaderAllowlist) = 0 THEN TRUE
    ELSE \E i \in 1..Len(c.HeaderAllowlist) :
            ToLower(c.HeaderAllowlist[i]) = ToLower(header)

\* Config.GetTimeout, in seconds.
GetTimeout(c) == c.RequestTimeoutSeconds

(***************************************************************************)
(* internal/tryit/security.go                                              *)
(***************************************************************************)
SensitiveHeaders ==
    { "authorization", "cookie", "set-cookie", "proxy-authorization",
      "www-authenticate", "x-api-key", "api-key" }

Redacted == "[REDACTED]"

SeqToSet(s) == { s[i] : i \in DOMAIN s }

\* Restriction of a map to some of its keys.
Restrict(m, keys) == [ k \in keys |-> m[k] ]

\* (Variant: the allowlist compared with the header name exactly.)
FilterHeadersExact(headers, allowlist) ==
    IF Len(allowlist) = 0 THEN headers
    ELSE Restrict(headers, { k \in DOMAIN headers : k \in SeqToSet(allowlist) })

\* FilterHeaders: an empty allowlist permits all; otherwise the entries
\* whose lower-cased name is a lower-cased allowlist entry, keys unchanged.
FilterHeaders(headers, allowlist) ==
    IF Len(allowlist) = 0 THEN headers
    ELSE LET allowedLower == { ToLower(h) : h \in SeqToSet(allowlist) }
         IN  Restrict(headers, { k \in DOMAIN headers : ToLower(k) \in allowedLower })

\* MergeHeaders: a copy of base, then every entry of override stored under
\* its own key (Go map keys: compared exactly, case included).
MergeHeaders(base, override) == override @@ base

\* (Variant: the sensitive names compared with the header name exactly.)
RedactSensitiveHeadersExact(headers) ==
    [ k \in DOMAIN headers |->
        IF k[2] = "lower" /\ k[1] \in SensitiveHeaders THEN <<Redacted>> ELSE headers[k] ]

\* RedactSensitiveHeaders, on map[string][]string.
RedactSensitiveHeaders(headers) ==
    [ k \in DOMAIN headers |->
        IF ToLower(k)[1] \in SensitiveHeaders THEN <<Redacted>> ELSE headers[k] ]

\* ValidateJSONSize: TRUE when the body is refused.
\* (Variant: no limit enforced.)
ValidateJSONSizeNoLimit(size, maxBytes) == FALSE
ValidateJSONSize(size, maxBytes) == maxBytes > 0 /\ size > maxBytes

(***************************************************************************)
(* internal/tryit: Request, Transport.                                     *)
(***************************************************************************)
\* ParseTransport: "" is connect; anything but the three names is an error.
ParseTransport(s) ==
    IF s = "connect" \/ s = "" THEN [t |-> "connect", err |-> FALSE]
    ELSE IF s = "grpc" THEN [t |-> "grpc", err |-> FALSE]
    ELSE IF s = "grpc-web" THEN [t |-> "grpc-web", err |-> FALSE]
    ELSE [t |-> "", err |-> TRUE]

\* Request.Validate: the error, or "".
RequestValidate(r) ==
    IF r.Environment = "" THEN "environment is required"
    ELSE IF r.MethodDescriptor = NilDescriptor THEN "method descriptor is required"
    ELSE IF r.BaseURL = << >> THEN "base URL is required"
    ELSE IF r.Timeout <= 0 THEN "timeout must be positive"
    ELSE ""

\* Request.MethodFullName: "package.Service/Method" of the descriptor.
MethodFullName(r) == r.MethodDescriptor.name

\* buildConnectURL and buildGRPCWebURL: the base URL without its trailing
\* slash, a slash, the method's full name (kept apart as the path).
buildConnectURL(baseURL, methodFullName) ==
    [base |-> TrimSlash(baseURL) \o <<"/">>, path |-> methodFullName]

(***************************************************************************)
(* tryit.Response and what Invoke returns.                                 *)
(***************************************************************************)
NoError == [set |-> FALSE, Code |-> 0, Message |-> ""]
InvocationError(code, message) == [set |-> TRUE, Code |-> code, Message |-> message]

Response(status, headers, body, error) ==
    [Status |-> status, Headers |-> headers, JSONBody |-> body, Error |-> error]

NilResponse == Response(-1, << >>, "", NoError)

\* (resp, nil), (nil, err), or a panic that unwinds out of Invoke.
ReturnResponse(resp) == [kind |-> "response", resp |-> resp, err |-> ""]
ReturnError(err)     == [kind |-> "error", resp |-> NilResponse, err |-> err]
Panic(what)          == [kind |-> "panic", resp |-> NilResponse, err |-> what]
NotReturned          == [kind |-> "none", resp |-> NilResponse, err |-> ""]

\* gRPC codes used by the invokers.
CodeOK == 0
CodeUnknown == 2
CodeInvalidArgument == 3
CodeInternal == 13
CodeUnavailable == 14
StatusBadRequest == 400
StatusOK == 200

\* protojson.Unmarshal of the request body into the input message: the
\* library accepts a body that is JSON of the message, and refuses invalid
\* JSON and unknown fields.
JSONDecodes(body) == body.json = "valid"

\* strconv.Atoi, on the header values of this model.
AtoiTable == ("0" :> 0) @@ ("5" :> 5) @@ ("14" :> 14)
Atoi(s) ==
    IF s \in DOMAIN AtoiTable THEN [n |-> AtoiTable[s], err |-> FALSE]
    ELSE [n |-> 0, err |-> TRUE]

\* http.Header.Get: the first value stored under the canonical key, or "".
HeaderGet(headers, name) ==
    IF <<name, "canon">> \in DOMAIN headers /\ Len(headers[<<name, "canon">>]) > 0
    THEN headers[<<name, "canon">>][1]
    ELSE ""

\* GRPCWebInvoker.extractGRPCStatus
extractGRPCStatus(headers) ==
    LET statusStr == HeaderGet(headers, "grpc-status")
    IN  IF statusStr = "" THEN 0
        ELSE IF Atoi(statusStr).err THEN CodeUnknown
        ELSE Atoi(statusStr).n

(***************************************************************************)
(* gRPC-Web frames: bytes are 0..255.                                      *)
(***************************************************************************)
\* binary.BigEndian.PutUint32 / Uint32
\* (Variant: the length written least significant byte first.)
PutUint32LittleEndian(n) ==
    << n % 256, (n \div 256) % 256, (n \div 65536) % 256, (n \div 16777216) % 256 >>

PutUint32(n) ==
    << (n \div 16777216) % 256, (n \div 65536) % 256, (n \div 256) % 256, n % 256 >>
Uint32(b) == b[1] * 16777216 + b[2] * 65536 + b[3] * 256 + b[4]

\* The request frame: flag 0, length, message.
DataFrame(payload) == <<0>> \o PutUint32(Len(payload)) \o payload
TrailerFrame(payload) == <<128>> \o PutUint32(Len(payload)) \o payload

\* parseGRPCWebFrame: the loop from offset (0-based) on, messageData so far.
RECURSIVE parseFrames(_, _, _)
parseFrames(data, offset, messageData) ==
    IF ~(offset < Len(data)) THEN [data |-> messageData, err |-> FALSE]
    ELSE IF offset + 5 > Len(data) THEN [data |-> messageData, err |-> FALSE]
    ELSE LET frameFlag   == data[offset + 1]
             frameLength == Uint32(SubSeq(data, offset + 2, offset + 5))
             body        == offset + 5
         IN  IF body + frameLength > Len(data)
             THEN [data |-> << >>, err |-> TRUE]
             ELSE parseFrames(data, body + frameLength,
                      IF frameFlag = 0
                      THEN SubSeq(data, body + 1, body + frameLength)
                      ELSE messageData)

\* (Variant: a frame longer than the data ends the loop like an incomplete
\* header does, with what was parsed so far.)
RECURSIVE parseFramesBreak(_, _, _)
parseFramesBreak(data, offset, messageData) ==
    IF ~(offset < Len(data)) THEN [data |-> messageData, err |-> FALSE]
    ELSE IF offset + 5 > Len(data) THEN [data |-> messageData, err |-> FALSE]
    ELSE LET frameFlag   == data[offset + 1]
             frameLength == Uint32(SubSeq(data, offset + 2, offset + 5))
             body        == offset + 5
         IN  IF body + frameLength > Len(data)
             THEN [data |-> messageData, err |-> FALSE]
             ELSE parseFramesBreak(data, body + frameLength,
                      IF frameFlag = 0
                      THEN SubSeq(data, body + 1, body + frameLength)
                      ELSE messageData)
parseGRPCWebFrameBreak(data) == parseFramesBreak(data, 0, << >>)

parseGRPCWebFrame(data) == parseFrames(data, 0, << >>)

\* encoding/base64 StdEncoding.DecodeString, on bytes: the value of a
\* character of the alphabet, or -1.
B64Value(c) ==
    IF c >= 65 /\ c <= 90 THEN c - 65
    ELSE IF c >= 97 /\ c <= 122 THEN c - 71
    ELSE IF c >= 48 /\ c <= 57 THEN c + 4
    ELSE IF c = 43 THEN 62
    ELSE IF c = 47 THEN 63
    ELSE -1

\* One quantum of four characters: the bytes it decodes to, or an error
\* ("=", 61, pads the last quantum).
B64Quantum(q, last) ==
    LET v == [i \in 1..4 |-> B64Value(q[i])]
        n == v[1] * 262144 + v[2] * 4096
             + (IF v[3] >= 0 THEN v[3] ELSE 0) * 64
             + (IF v[4] >= 0 THEN v[4] ELSE 0)
        b == << (n \div 65536) % 256, (n \div 256) % 256, n % 256 >>
    IN  IF v[1] < 0 \/ v[2] < 0 THEN [err |-> TRUE, out |-> << >>]
        ELSE IF v[3] >= 0 /\ v[4] >= 0 THEN [err |-> FALSE, out |-> b]
        ELSE IF ~last THEN [err |-> TRUE, out |-> << >>]
        ELSE IF q[3] = 61 /\ q[4] = 61 THEN [err |-> FALSE, out |-> <<b[1]>>]
        ELSE IF v[3] >= 0 /\ q[4] = 61 THEN [err |-> FALSE, out |-> <<b[1], b[2]>>]
        ELSE [err |-> TRUE, out |-> << >>]

RECURSIVE B64Decode(_)
B64Decode(s) ==
    IF Len(s) = 0 THEN [err |-> FALSE, out |-> << >>]
    ELSE IF Len(s) < 4 THEN [err |-> TRUE, out |-> << >>]
    ELSE LET q    == B64Quantum(SubSeq(s, 1, 4), Len(s) = 4)
             rest == B64Decode(SubSeq(s, 5, Len(s)))
         IN  IF q.err \/ rest.err THEN [err |-> TRUE, out |-> << >>]
             ELSE [err |-> FALSE, out |-> q.out \o rest.out]

\* The content types of grpc-web-text (strings.Contains "text").
TextContentTypes == {"application/grpc-web-text+proto", "text/plain"}

(***************************************************************************)
(* What the upstream (and the network on the way) answers.  body is the    *)
(* kind of JSON a Connect reply carries, bytes the body of a gRPC-Web      *)
(* reply, wire whether the protobuf library can decode the reply message,  *)
(* code and isStatus the error conn.Invoke returns.                        *)
(***************************************************************************)
Reply ==
    [ doErr |-> FALSE, readErr |-> FALSE, StatusCode |-> StatusOK,
      ContentType |-> "application/grpc-web+proto", Headers |-> << >>,
      body |-> "empty", bytes |-> << >>, wire |-> "ok",
      dialErr |-> FALSE, code |-> CodeOK, isStatus |-> TRUE ]

CookieHeaders ==
    (<<"set-cookie", "canon">> :> <<"sid=1">>) @@ (<<"x-foo", "canon">> :> <<"v">>)
GRPCStatusHeader(s) == (<<"grpc-status", "canon">> :> <<s>>)

ConnectReplies ==
    { [Reply EXCEPT !.doErr = TRUE],
      [Reply EXCEPT !.readErr = TRUE],
      [Reply EXCEPT !.body = "valid", !.Headers = CookieHeaders],
      [Reply EXCEPT !.body = "invalid"],
      Reply,
      [Reply EXCEPT !.StatusCode = 404, !.body = "invalid"],
      [Reply EXCEPT !.StatusCode = 500, !.body = "valid"] }

GRPCDialOutcomes == { "conn", "error" }

\* Response metadata: lower-case keys, several values under one key.
MetadataHeaders ==
    (<<"cookie", "lower">> :> <<"a=1", "b=2">>) @@ (<<"x-foo", "lower">> :> <<"v", "w">>)

GRPCReplies ==
    { [Reply EXCEPT !.Headers = CookieHeaders],
      [Reply EXCEPT !.Headers = MetadataHeaders],
      [Reply EXCEPT !.code = 5],
      [Reply EXCEPT !.code = CodeUnavailable],
      [Reply EXCEPT !.code = CodeUnknown, !.isStatus = FALSE] }

\* A reply message of two bytes, and a trailer block ("grpc-status:5").
Payload == <<8, 1>>
Trailer5 == <<103, 114, 112, 99, 45, 115, 116, 97, 116, 117, 115, 58, 53>>
\* base64 of DataFrame(Payload): "AAAAAAIIAQ=="
PayloadText == <<65, 65, 65, 65, 65, 65, 73, 73, 65, 81, 61, 61>>
TextType == "application/grpc-web-text+proto"

GRPCWebReplies ==
    { [Reply EXCEPT !.doErr = TRUE],
      [Reply EXCEPT !.readErr = TRUE],
      [Reply EXCEPT !.bytes = DataFrame(Payload), !.Headers = CookieHeaders],
      [Reply EXCEPT !.bytes = DataFrame(Payload), !.wire = "bad"],
      [Reply EXCEPT !.Headers = GRPCStatusHeader("5")],
      [Reply EXCEPT !.Headers = GRPCStatusHeader("x")],
      [Reply EXCEPT !.bytes = <<0, 0, 0, 0, 9, 1>>],
      [Reply EXCEPT !.StatusCode = 503],
      [Reply EXCEPT !.StatusCode = 404, !.bytes = <<60, 104>>],
      [Reply EXCEPT !.ContentType = TextType],
      [Reply EXCEPT !.ContentType = TextType, !.bytes = PayloadText],
      [Reply EXCEPT !.bytes = DataFrame(Payload) \o TrailerFrame(Trailer5)] }

(***************************************************************************)
(* The invokers.  Each Invoke is taken in two parts: what it does before   *)
(* it touches the network, and what it makes of the network's answer.      *)
(***************************************************************************)
\* The TLS policy of an http.Client request: by scheme, verification off
\* when the request says so (getHTTPClient).
HTTPClientTLS(url, insecureSkipVerify) ==
    IF urlParse(url.base).Scheme # StrHTTP \o <<"s">> THEN "plaintext"
    ELSE IF insecureSkipVerify THEN "tls-noverify"
    ELSE "tls"

\* for key, value := range req.Headers { httpReq.Header.Set(key, value) }
\* over the protocol's own headers: Set stores under the canonical key,
\* and Go ranges over a map in an unspecified order, so of several keys
\* with one canonical form whichever comes last stays.
SetHeadersOutcomes(protocol, headers) ==
    LET canon == { CanonicalMIMEHeaderKey(k) : k \in DOMAIN headers }
        pick  == [ c \in canon |->
                     { headers[k] : k \in { x \in DOMAIN headers :
                                              CanonicalMIMEHeaderKey(x) = c } } ]
    IN  { m @@ protocol : m \in { f \in [canon -> UNION { pick[c] : c \in canon }] :
                                    \A c \in canon : f[c] \in pick[c] } }

ConnectProtocolHeaders ==
    (<<"content-type", "canon">> :> "application/json")
    @@ (<<"accept", "canon">> :> "application/json")

\* ConnectInvoker.Invoke up to client.Do: the return value when it returns
\* before, or the POST it is about to send.
ConnectBefore(req) ==
    LET url == buildConnectURL(req.BaseURL, MethodFullName(req))
    IN  IF RequestValidate(req) # ""
        THEN [ret |-> ReturnError("invalid request"), send |-> FALSE]
        ELSE IF req.JSONBody.size > 0 /\ ~JSONDecodes(req.JSONBody)
        THEN [ret |-> ReturnResponse(Response(StatusBadRequest, << >>, "",
                         InvocationError(StatusBadRequest, "failed to parse JSON request"))),
              send |-> FALSE]
        ELSE IF urlParse(url.base).err
        THEN [ret |-> ReturnError("failed to create HTTP request"), send |-> FALSE]
        ELSE [ret |-> NotReturned, send |-> TRUE]

\* ConnectInvoker.Invoke from client.Do's return on.
ConnectAfter(req, reply) ==
    IF reply.doErr
    THEN ReturnResponse(Response(0, << >>, "", InvocationError(0, "HTTP request failed")))
    ELSE IF reply.readErr
    THEN ReturnResponse(Response(reply.StatusCode, reply.Headers, "",
             InvocationError(reply.StatusCode, "failed to read response body")))
    ELSE IF reply.StatusCode # StatusOK
    THEN ReturnResponse(Response(reply.StatusCode, reply.Headers, reply.body,
             InvocationError(reply.StatusCode, "RPC failed")))
    ELSE IF reply.body # "empty" /\ reply.body # "valid"
    THEN ReturnResponse(Response(reply.StatusCode, reply.Headers, reply.body,
             InvocationError(reply.StatusCode, "failed to parse response JSON")))
    ELSE ReturnResponse(Response(reply.StatusCode, reply.Headers, reply.body, NoError))

\* GRPCInvoker.Invoke: credentials and dial target from the base URL.
\* target[:4], target[:8] and target[:7] are taken without a length check:
\* a slice beyond the string panics.
\* (Variant: insecure credentials for every target that starts with "http".)
GRPCTargetInsecureForHTTPPrefix(req) ==
    LET target == req.BaseURL
        tls    == IF req.InsecureSkipVerify THEN "tls-noverify" ELSE "tls"
    IN  IF Len(target) < 4 THEN [panic |-> TRUE, target |-> target, creds |-> tls]
        ELSE IF Prefix(target, 4) # StrHTTP
        THEN [panic |-> FALSE, target |-> target, creds |-> tls]
        ELSE IF Len(target) < 8 THEN [panic |-> TRUE, target |-> target, creds |-> tls]
        ELSE IF Prefix(target, 8) = StrHTTPSColon
        THEN [panic |-> FALSE, target |-> SubSeq(target, 9, Len(target)),
              creds |-> "plaintext"]
        ELSE IF Prefix(target, 7) = StrHTTPColon
        THEN [panic |-> FALSE, target |-> SubSeq(target, 8, Len(target)),
              creds |-> "plaintext"]
        ELSE [panic |-> FALSE, target |-> target, creds |-> "plaintext"]

GRPCTarget(req) ==
    LET target == req.BaseURL
        tls    == IF req.InsecureSkipVerify THEN "tls-noverify" ELSE "tls"
    IN  IF Len(target) < 4 THEN [panic |-> TRUE, target |-> target, creds |-> tls]
        ELSE IF Prefix(target, 4) # StrHTTP
        THEN [panic |-> FALSE, target |-> target, creds |-> tls]
        ELSE IF Len(target) < 8 THEN [panic |-> TRUE, target |-> target, creds |-> tls]
        ELSE IF Prefix(target, 8) = StrHTTPSColon
        THEN [panic |-> FALSE, target |-> SubSeq(target, 9, Len(target)), creds |-> tls]
        ELSE IF Prefix(target, 7) = StrHTTPColon
        THEN [panic |-> FALSE, target |-> SubSeq(target, 8, Len(target)),
              creds |-> "plaintext"]
        ELSE [panic |-> FALSE, target |-> target, creds |-> tls]

\* GRPCInvoker.Invoke up to grpc.Dial.
GRPCBefore(req) ==
    IF RequestValidate(req) # ""
    THEN [ret |-> ReturnError("invalid request"), dial |-> FALSE]
    ELSE IF GRPCTarget(req).panic
    THEN [ret |-> Panic("slice bounds out of range"), dial |-> FALSE]
    ELSE [ret |-> NotReturned, dial |-> TRUE]

\* ... from grpc.Dial's return to conn.Invoke.
GRPCAfterDial(req, outcome) ==
    IF outcome = "error"
    THEN [ret |-> ReturnResponse(Response(CodeUnavailable, << >>, "",
                     InvocationError(CodeUnavailable, "failed to connect to gRPC server"))),
          send |-> FALSE]
    ELSE IF req.JSONBody.size > 0 /\ ~JSONDecodes(req.JSONBody)
    THEN [ret |-> ReturnResponse(Response(CodeInvalidArgument, << >>, "",
                     InvocationError(CodeInvalidArgument, "failed to parse JSON request"))),
          send |-> FALSE]
    ELSE [ret |-> NotReturned, send |-> TRUE]

\* metadata.New(req.Headers): keys lower-cased, the values of keys that
\* fall together appended in the order the map is ranged over.
Orderings(S) ==
    { s \in [1..Cardinality(S) -> S] : \A i, j \in DOMAIN s : i # j => s[i] # s[j] }
MetadataOutcomes(headers) ==
    LET lower == { ToLower(k) : k \in DOMAIN headers }
        group(l) == { k \in DOMAIN headers : ToLower(k) = l }
        orders(l) == { [i \in DOMAIN p |-> headers[p[i]]] : p \in Orderings(group(l)) }
    IN  { f \in [lower -> UNION { orders(l) : l \in lower }] :
            \A l \in lower : f[l] \in orders(l) }

\* ... from conn.Invoke's return on.
GRPCAfter(req, reply) ==
    IF reply.code # CodeOK /\ ~reply.isStatus
    THEN ReturnResponse(Response(CodeUnknown, reply.Headers, "",
             InvocationError(CodeUnknown, "RPC failed")))
    ELSE IF reply.code # CodeOK
    THEN ReturnResponse(Response(reply.code, reply.Headers, "",
             InvocationError(reply.code, "status message")))
    ELSE ReturnResponse(Response(CodeOK, reply.Headers, "valid", NoError))


GRPCWebProtocolHeaders ==
    (<<"content-type", "canon">> :> "application/grpc-web+proto")
    @@ (<<"accept", "canon">> :> "application/grpc-web+proto, application/grpc-web-text+proto")
    @@ (<<"x-grpc-web", "canon">> :> "1")
    @@ (<<"x-user-agent", "canon">> :> "grpc-web-reflect/1.0")

\* GRPCWebInvoker.Invoke up to client.Do.
GRPCWebBefore(req) ==
    LET url == buildConnectURL(req.BaseURL, MethodFullName(req))
    IN  IF RequestValidate(req) # ""
        THEN [ret |-> ReturnError("invalid request"), send |-> FALSE]
        ELSE IF req.JSONBody.size > 0 /\ ~JSONDecodes(req.JSONBody)
        THEN [ret |-> ReturnResponse(Response(CodeInvalidArgument, << >>, "",
                         InvocationError(CodeInvalidArgument, "failed to parse JSON request"))),
              send |-> FALSE]
        ELSE IF urlParse(url.base).err
        THEN [ret |-> ReturnError("failed to create HTTP request"), send |-> FALSE]
        ELSE [ret |-> NotReturned, send |-> TRUE]

\* The body after the text-format branch: a text content type or a first
\* byte in 0x20..0x7E takes the branch, which reads respBody[0] (a panic on
\* an empty body) and keeps the base64 decoding when it succeeds.
GRPCWebBody(reply) ==
    LET respBody        == reply.bytes
        isTextFormat    == reply.ContentType \in TextContentTypes
        looksLikeBase64 == Len(respBody) > 0 /\ respBody[1] >= 32 /\ respBody[1] <= 126
    IN  IF ~(isTextFormat \/ looksLikeBase64) THEN [panic |-> FALSE, body |-> respBody]
        ELSE IF Len(respBody) = 0 THEN [panic |-> TRUE, body |-> respBody]
        ELSE IF B64Decode(respBody).err THEN [panic |-> FALSE, body |-> respBody]
        ELSE [panic |-> FALSE, body |-> B64Decode(respBody).out]

\* GRPCWebInvoker.Invoke from client.Do's return on.
GRPCWebAfter(req, reply) ==
    LET respBody   == GRPCWebBody(reply).body
        grpcStatus == extractGRPCStatus(reply.Headers)
        frame      == parseGRPCWebFrame(respBody)
        jsonBody   == IF Len(respBody) > 0 /\ Len(frame.data) > 0 THEN "valid" ELSE ""
    IN  IF reply.doErr
        THEN ReturnResponse(Response(CodeUnavailable, << >>, "",
                 InvocationError(CodeUnavailable, "HTTP request failed")))
        ELSE IF reply.readErr
        THEN ReturnResponse(Response(reply.StatusCode, reply.Headers, "",
                 InvocationError(reply.StatusCode, "failed to read response body")))
        ELSE IF GRPCWebBody(reply).panic
        THEN Panic("index out of range")
        ELSE IF Len(respBody) > 0 /\ frame.err
        THEN ReturnResponse(Response(CodeInternal, reply.Headers, "",
                 InvocationError(CodeInternal, "failed to parse gRPC-Web frame")))
        ELSE IF Len(respBody) > 0 /\ Len(frame.data) > 0 /\ reply.wire # "ok"
        THEN ReturnResponse(Response(CodeInternal, reply.Headers, "",
                 InvocationError(CodeInternal, "failed to unmarshal response")))
        ELSE IF grpcStatus # 0
        THEN ReturnResponse(Response(grpcStatus, reply.Headers, jsonBody,
                 InvocationError(grpcStatus, "grpc-message")))
        ELSE ReturnResponse(Response(CodeOK, reply.Headers, jsonBody, NoError))


(***************************************************************************)
(* Inputs: configuration files, form posts, and requests handed to the     *)
(* invokers directly.                                                      *)
(***************************************************************************)
HdrAuthLower == <<"authorization", "lower">>
HdrAuthCanon == <<"authorization", "canon">>
HdrEnv       == <<"x-env", "canon">>
HdrTrace     == <<"x-trace", "canon">>
HdrOther     == <<"x-other", "canon">>

Environment(name, baseURL, transport, skipVerify, defaultHeaders) ==
    [ Name |-> name, BaseURL |-> baseURL, Transport |-> transport,
      TLS |-> [InsecureSkipVerify |-> skipVerify], DefaultHeaders |-> defaultHeaders ]

EnvDev  == Environment("dev", URLPlain, "", FALSE,
                       (HdrAuthLower :> "env") @@ (HdrEnv :> "e"))
EnvProd == Environment("prod", URLSecure, "grpc", TRUE, (HdrAuthLower :> "env"))
EnvWeb  == Environment("web", URLSlash, "grpc-web", FALSE, << >>)

\* A body limit small enough for a posted body to exceed it.
SmallBodyLimit == 16
ShortTimeoutSeconds == 5

RawConfig(envs, allowlist, maxBytes, timeout) ==
    [ Environments |-> envs, HeaderAllowlist |-> allowlist,
      MaxRequestBodyBytes |-> maxBytes, RequestTimeoutSeconds |-> timeout ]

RawConfigs ==
    { RawConfig(<<EnvDev, EnvProd, EnvWeb>>, << >>, 0, 0),
      RawConfig(<<EnvDev, EnvProd, EnvWeb>>, <<HdrAuthLower, HdrTrace>>,
                SmallBodyLimit, ShortTimeoutSeconds),
      RawConfig(<<EnvDev, EnvDev>>, << >>, 0, 0),
      RawConfig(<<Environment("bad", URLNoHost, "", FALSE, << >>)>>, << >>, 0, 0),
      RawConfig(<<Environment("odd", URLPlain, "soap", FALSE, << >>)>>, << >>, 0, 0),
      RawConfig(<<EnvDev>>, << >>, -1, 0),
      RawConfig(<<EnvDev>>, << >>, 0, -1) }

\* The server's config: nil without -config, else what Load returned
\* without error (main exits on a load error).
NilConfig == RawConfig(<< >>, << >>, -1, -1)
LoadedConfigs == { Load(raw).cfg : raw \in { r \in RawConfigs : Load(r).err = "" } }

Body(size, json) == [size |-> size, json |-> json]
Bodies ==
    { Body(0, "empty"), Body(8, "valid"), Body(8, "invalid"),
      Body(SmallBodyLimit + 1, "valid"), Body(DefaultMaxRequestBodyBytes + 1, "valid") }

CallerHeaders ==
    { << >>,
      (HdrAuthCanon :> "caller") @@ (HdrTrace :> "t"),
      (HdrOther :> "o") }

MethodNames == { <<"svc", 1, 1>>, <<"svc", 1, MaxVersion>>, <<"svc", 0, 0>> }

\* The form of POST /tryit/invoke; headersJSON tells whether the headers
\* field parses as a JSON object.
TryItRequest(env, method, transport, headersJSON, headers, body) ==
    [ Environment |-> env, Method |-> method, Transport |-> transport,
      headersJSON |-> headersJSON, Headers |-> headers, Body |-> body ]

TryItRequests ==
    { TryItRequest(e, m, t, TRUE, h, b) :
        e \in {"dev", "prod", "web", "nope"}, m \in MethodNames,
        t \in {"", "connect", "grpc", "grpc-web", "soap"},
        h \in CallerHeaders, b \in Bodies }
    \cup { TryItRequest("dev", <<"svc", 1, 1>>, "", FALSE, << >>, Body(0, "empty")) }

NilTryItRequest == TryItRequest("", <<"nil">>, "", TRUE, << >>, Body(0, "empty"))

\* tryit.Request
Request(env, md, transport, baseURL, skipVerify, headers, body, timeout) ==
    [ Environment |-> env, MethodDescriptor |-> md, Transport |-> transport,
      BaseURL |-> baseURL, InsecureSkipVerify |-> skipVerify,
      Headers |-> headers, JSONBody |-> body, Timeout |-> timeout ]

NilRequest == Request("", NilDescriptor, "", << >>, FALSE, << >>, Body(0, "empty"), 0)

\* Requests a caller of the tryit package can hand to an invoker.
DirectRequests ==
    { Request(e, md, "", u, s, << >>, b, t) :
        e \in {"", "dev"},
        md \in {NilDescriptor, [name |-> <<"svc", 1, 1>>, ver |-> 1]},
        u \in {URLEmpty, URLPlain, URLSecure, URLNoScheme, URLBadScheme,
               StrHTTP \o <<"s">>},
        s \in BOOLEAN,
        b \in {Body(0, "empty"), Body(8, "valid"), Body(8, "invalid")},
        t \in {0, DefaultRequestTimeoutSeconds} }

Invokers == {"connect", "grpc", "grpc-web"}

(***************************************************************************)
(* The invocation in progress.  net is the log of what reached the         *)
(* network: dials and requests sent, with address, TLS mode and headers.   *)
(***************************************************************************)
NoOutput == [status |-> 0, Success |-> FALSE, Headers |-> << >>, Error |-> NoError,
             written |-> FALSE]
Output(status, success, headers, error) ==
    [status |-> status, Success |-> success, Headers |-> headers, Error |-> error,
     written |-> TRUE]

\* No package function called yet.
IdleLib == [fn |-> "none", in |-> [none |-> TRUE], out |-> [none |-> TRUE]]

IdleGen == [pc |-> "idle", link |-> "", message |-> "", options |-> [none |-> TRUE],
            stack |-> << >>, err |-> FALSE, entryPoints |-> {}, sentinels |-> 0]

\* done: "no", or why ctx.Done() is closed; conn: the grpc.ClientConn;
\* body: httpResp.Body.
\* Watcher.Start has its channel empty and no timer (debounceTimer is nil);
\* times are in milliseconds since the watcher started.
NoTimer == 0 - 1
IdleWatch == [now |-> 0, Events |-> << >>, debounceTimer |-> NoTimer,
              log |-> << >>, reloads |-> << >>]
IdleCtx == [done |-> "no", conn |-> "none", body |-> "none"]

IdleCall ==
    [ pc |-> "idle", origin |-> "none", form |-> NilTryItRequest,
      reg |-> NilRegistry, env |-> NilEnvironment, invoker |-> "none",
      req |-> NilRequest, net |-> << >>, reply |-> Reply, ret |-> NotReturned,
      out |-> NoOutput ]

NetOp(op, proto, addr, tls, headers) ==
    [op |-> op, proto |-> proto, addr |-> addr, tls |-> tls, headers |-> headers]


(***************************************************************************)
(* handleTryItInvoke (POST /api/tryit/invoke).                             *)
(***************************************************************************)
StatusServiceUnavailable == 503
StatusRequestEntityTooLarge == 413
StatusNotFound == 404
StatusNotImplemented == 501
StatusInternalServerError == 500

writeJSONError(c, statusCode, message) ==
    [ c EXCEPT !.pc = "done",
               !.out = Output(statusCode, FALSE, << >>,
                              InvocationError(statusCode, message)) ]

\* From the top to the body-size check.
Receive(form) ==
    /\ call.pc = "idle"
    /\ LET c == [IdleCall EXCEPT !.origin = "gateway", !.form = form]
       IN  call' =
             IF config = NilConfig
             THEN writeJSONError(c, StatusServiceUnavailable, "not configured")
             ELSE IF ~form.headersJSON
             THEN writeJSONError(c, StatusBadRequest, "failed to parse headers JSON")
             ELSE IF ValidateJSONSize(form.Body.size, config.MaxRequestBodyBytes)
             THEN writeJSONError(c, StatusRequestEntityTooLarge, "body too large")
             ELSE [c EXCEPT !.pc = "getRegistry"]
    /\ UNCHANGED <<reloadVars, doc, config, lib, gen, ctx, watch>>

\* registry, _ := s.getRegistry(); nil: 503.
TryItGetRegistry ==
    /\ call.pc = "getRegistry"
    /\ getRegistryEnabled
    /\ call' = IF getRegistry.registry = NilRegistry
               THEN writeJSONError(call, StatusServiceUnavailable, "no descriptors")
               ELSE [call EXCEPT !.pc = "lookup", !.reg = getRegistry.registry]
    /\ UNCHANGED <<reloadVars, doc, config, lib, gen, ctx, watch>>

\* The effective transport: the override, or the environment's default.
EffectiveTransport(form, env) ==
    IF form.Transport = "" THEN env.Transport ELSE form.Transport

\* The invoker the switch on the parsed transport selects; "none" where it
\* writes an error instead.
SelectInvoker(parsedTransport) ==
    CASE parsedTransport = "connect" -> "connect"
      [] parsedTransport = "grpc"    -> "grpc"
      [] OTHER                       -> "none"

\* From FindMethod on the copied registry to the selection of the invoker.
TryItResolve ==
    /\ call.pc = "lookup"
    /\ LET form       == call.form
           methodDesc == FindMethod(call.reg, form.Method)
           found      == GetEnvironment(config, form.Environment)
           env        == found.env
           parsed     == ParseTransport(EffectiveTransport(form, env))
           filtered   == FilterHeaders(form.Headers, config.HeaderAllowlist)
           merged     == MergeHeaders(env.DefaultHeaders, filtered)
           invokerReq == Request(form.Environment, methodDesc.value, "", env.BaseURL,
                                 env.TLS.InsecureSkipVerify, merged, form.Body,
                                 GetTimeout(config))
       IN  call' =
             IF ~methodDesc.found
             THEN writeJSONError(call, StatusNotFound, "method not found")
             ELSE IF found.err
             THEN writeJSONError(call, StatusBadRequest, "environment not found")
             ELSE IF parsed.err
             THEN writeJSONError(call, StatusBadRequest, "invalid transport")
             ELSE IF parsed.t = "grpc-web"
             THEN writeJSONError([call EXCEPT !.env = env], StatusNotImplemented,
                                 "gRPC-Web transport is not yet implemented")
             ELSE [call EXCEPT !.pc = "invoke", !.env = env,
                               !.invoker = SelectInvoker(parsed.t),
                               !.req = invokerReq]
    /\ UNCHANGED <<reloadVars, doc, config, lib, gen, ctx, watch>>

\* After invoker.Invoke returned: 500 on an error, else the response page
\* with the headers redacted.  A panic unwinds through the handler (net/http
\* recovers it and closes the connection: nothing is written).
TryItRespond ==
    /\ call.pc = "returned"
    /\ call.origin = "gateway"
    /\ call' =
         CASE call.ret.kind = "error" ->
                writeJSONError(call, StatusInternalServerError, "invocation failed")
           [] call.ret.kind = "response" ->
                [call EXCEPT !.pc = "done",
                             !.out = Output(StatusOK, ~call.ret.resp.Error.set,
                                            RedactSensitiveHeaders(call.ret.resp.Headers),
                                            call.ret.resp.Error)]
           [] OTHER -> [call EXCEPT !.pc = "done"]
    /\ UNCHANGED <<reloadVars, doc, config, lib, gen, ctx, watch>>

\* A caller of the tryit package invokes an invoker itself.
DirectInvoke(invoker, req) ==
    /\ call.pc = "idle"
    /\ call' = [IdleCall EXCEPT !.pc = "invoke", !.origin = "direct",
                                !.invoker = invoker, !.req = req]
    /\ UNCHANGED <<reloadVars, doc, config, lib, gen, ctx, watch>>

(***************************************************************************)
(* The invokers at work.                                                   *)
(***************************************************************************)
\* Invoke returns as soon as client.Do or conn.Invoke has returned and its
\* result is turned into a Response: there is no loop around the call.
\* (Variant: a failed call sent again.)
AfterDoRetry(ret) == IF ret.resp.Error.set THEN "do" ELSE "returned"
AfterDo(ret) == "returned"

\* net/http sends only to http and https URLs; any other scheme fails in
\* client.Do before the network is touched.
SupportedScheme(url) ==
    urlParse(url.base).Scheme \in {StrHTTP, StrHTTP \o <<"s">>}

Returned(c, ret) == [c EXCEPT !.pc = "returned", !.ret = ret]

InvokeConnect ==
    /\ call.pc = "invoke" /\ call.invoker = "connect"
    /\ call' = IF ConnectBefore(call.req).send
               THEN [call EXCEPT !.pc = "do"]
               ELSE Returned(call, ConnectBefore(call.req).ret)
    /\ UNCHANGED <<reloadVars, doc, config, lib, gen, ctx, watch>>

\* The HTTP exchange of the Connect and gRPC-Web invokers.
HTTPDo(proto, protocolHeaders, ret, reply, headers) ==
    LET req == call.req
        url == buildConnectURL(req.BaseURL, MethodFullName(req))
    IN  /\ call.pc = "do" /\ call.invoker = proto
        /\ headers \in SetHeadersOutcomes(protocolHeaders, req.Headers)
        /\ ~SupportedScheme(url) => reply.doErr
        /\ call' = [call EXCEPT
                      !.pc    = AfterDo(ret),
                      !.ret   = ret,
                      !.reply = reply,
                      !.net   = IF SupportedScheme(url)
                              THEN Append(@, NetOp("send", proto, url.base,
                                       HTTPClientTLS(url, req.InsecureSkipVerify),
                                       headers))
                              ELSE @]
        /\ UNCHANGED <<reloadVars, doc, config, lib, gen, ctx, watch>>

ConnectDo(reply, headers) ==
    HTTPDo("connect", ConnectProtocolHeaders, ConnectAfter(call.req, reply),
           reply, headers)

InvokeGRPCWeb ==
    /\ call.pc = "invoke" /\ call.invoker = "grpc-web"
    /\ call' = IF GRPCWebBefore(call.req).send
               THEN [call EXCEPT !.pc = "do"]
               ELSE Returned(call, GRPCWebBefore(call.req).ret)
    /\ UNCHANGED <<reloadVars, doc, config, lib, gen, ctx, watch>>

GRPCWebDo(reply, headers) ==
    HTTPDo("grpc-web", GRPCWebProtocolHeaders, GRPCWebAfter(call.req, reply),
           reply, headers)

InvokeGRPC ==
    /\ call.pc = "invoke" /\ call.invoker = "grpc"
    /\ call' = IF GRPCBefore(call.req).dial
               THEN [call EXCEPT !.pc = "dial"]
               ELSE Returned(call, GRPCBefore(call.req).ret)
    /\ UNCHANGED <<reloadVars, doc, config, lib, gen, ctx, watch>>

\* grpc.Dial, then the JSON decoding of the request body.
GRPCDial(outcome) ==
    LET req == call.req
        t   == GRPCTarget(req)
        a   == GRPCAfterDial(req, outcome)
    IN  /\ call.pc = "dial"
        /\ call' = [call EXCEPT
                      !.pc  = IF a.send THEN "do" ELSE "returned",
                      !.ret = a.ret,
                      !.net = Append(@, NetOp("dial", "grpc", t.target, t.creds, << >>))]
        /\ UNCHANGED <<reloadVars, doc, config, lib, gen, ctx, watch>>

\* conn.Invoke with the metadata of the request's headers.
GRPCInvoke(reply, md) ==
    LET req == call.req
        t   == GRPCTarget(req)
        ret == GRPCAfter(req, reply)
    IN  /\ call.pc = "do" /\ call.invoker = "grpc"
        /\ md \in MetadataOutcomes(req.Headers)
        /\ call' = [call EXCEPT
                      !.pc    = AfterDo(ret),
                      !.ret   = ret,
                      !.reply = reply,
                      !.net   = Append(@, NetOp("send", "grpc", t.target, t.creds, md))]
        /\ UNCHANGED <<reloadVars, doc, config, lib, gen, ctx, watch>>


(***************************************************************************)
(* The invokers under their context.  The handler derives the context      *)
(* from the inbound request, with the timeout of the config; client.Do,    *)
(* the read of the body and conn.Invoke wait for the upstream or for the   *)
(* context, whichever comes first.  pc "inflight": the request is sent and *)
(* no reply is there yet; "reading": the reply's header is there and the   *)
(* body is being read.                                                     *)
(***************************************************************************)
InvokePcs == {"invoke", "dial", "do", "inflight", "reading"}

\* ctx.Done() is closed.  (Variant: a call that does not watch its context.)
DoneNeverSeen(c) == FALSE
Done(c) == c.done # "no"

\* The timer of context.WithTimeout fires; the inbound request is cancelled.
CtxDeadline ==
    /\ call.origin = "gateway" /\ call.pc \in InvokePcs
    /\ ctx.done = "no"
    /\ ctx' = [ctx EXCEPT !.done = "deadline"]
    /\ UNCHANGED <<reloadVars, doc, config, call, lib, gen, watch>>

CtxCancel ==
    /\ call.pc \in InvokePcs
    /\ ctx.done = "no"
    /\ ctx' = [ctx EXCEPT !.done = "cancel"]
    /\ UNCHANGED <<reloadVars, doc, config, call, lib, gen, watch>>

\* What the HTTP invoker at work makes of a reply.
HTTPAfter(reply) ==
    IF call.invoker = "connect" THEN ConnectAfter(call.req, reply)
    ELSE GRPCWebAfter(call.req, reply)
HTTPProtocolHeaders ==
    IF call.invoker = "connect" THEN ConnectProtocolHeaders ELSE GRPCWebProtocolHeaders
HTTPReplies == IF call.invoker = "connect" THEN ConnectReplies ELSE GRPCWebReplies

\* client.Do is entered: it fails at once on a context that is done or on a
\* scheme net/http does not send to, else the request goes out.
HTTPSend(headers) ==
    LET url == buildConnectURL(call.req.BaseURL, MethodFullName(call.req))
    IN  /\ call.pc = "do" /\ call.invoker \in {"connect", "grpc-web"}
        /\ headers \in SetHeadersOutcomes(HTTPProtocolHeaders, call.req.Headers)
        /\ call' = IF Done(ctx) \/ ~SupportedScheme(url)
                   THEN Returned(call, HTTPAfter([Reply EXCEPT !.doErr = TRUE]))
                   ELSE [call EXCEPT
                           !.pc  = "inflight",
                           !.net = Append(@, NetOp("send", call.invoker, url.base,
                                      HTTPClientTLS(url, call.req.InsecureSkipVerify),
                                      headers))]
        /\ UNCHANGED <<reloadVars, doc, config, lib, gen, ctx, watch>>

\* client.Do returns with the upstream's answer: an error, or a response
\* whose body is open.
HTTPResponse(reply) ==
    /\ call.pc = "inflight" /\ call.invoker \in {"connect", "grpc-web"}
    /\ reply \in HTTPReplies
    /\ ~Done(ctx)
    /\ call' = IF reply.doErr
               THEN Returned([call EXCEPT !.reply = reply], HTTPAfter(reply))
               ELSE [call EXCEPT !.pc = "reading", !.reply = reply]
    /\ ctx' = IF reply.doErr THEN ctx ELSE [ctx EXCEPT !.body = "open"]
    /\ UNCHANGED <<reloadVars, doc, config, lib, gen, watch>>

\* client.Do returns with the context's error: no response, no body.
HTTPAbandon ==
    /\ call.pc = "inflight" /\ call.invoker \in {"connect", "grpc-web"}
    /\ Done(ctx)
    /\ call' = Returned(call, HTTPAfter([Reply EXCEPT !.doErr = TRUE]))
    /\ UNCHANGED <<reloadVars, doc, config, lib, gen, ctx, watch>>

\* io.ReadAll has the body, or its error; Invoke returns (or panics) and
\* the deferred httpResp.Body.Close() runs.
HTTPReadAll ==
    /\ call.pc = "reading"
    /\ ~Done(ctx)
    /\ call' = Returned(call, HTTPAfter(call.reply))
    /\ ctx' = [ctx EXCEPT !.body = "closed"]
    /\ UNCHANGED <<reloadVars, doc, config, lib, gen, watch>>

\* io.ReadAll fails with the context's error.
HTTPReadAbandon ==
    /\ call.pc = "reading"
    /\ Done(ctx)
    /\ call' = Returned(call, HTTPAfter([call.reply EXCEPT !.readErr = TRUE]))
    /\ ctx' = [ctx EXCEPT !.body = "closed"]
    /\ UNCHANGED <<reloadVars, doc, config, lib, gen, watch>>

\* grpc.Dial (it does not wait for the connection), defer conn.Close(),
\* then the JSON decoding of the request body.
GRPCDialConn(outcome) ==
    LET t == GRPCTarget(call.req)
        a == GRPCAfterDial(call.req, outcome)
    IN  /\ call.pc = "dial"
        /\ call' = [call EXCEPT
                      !.pc  = IF a.send THEN "do" ELSE "returned",
                      !.ret = a.ret,
                      !.net = Append(@, NetOp("dial", "grpc", t.target, t.creds, << >>))]
        /\ ctx' = [ctx EXCEPT !.conn = CASE outcome = "error" -> "none"
                                         [] a.send -> "open"
                                         [] OTHER -> "closed"]
        /\ UNCHANGED <<reloadVars, doc, config, lib, gen, watch>>

\* The status conn.Invoke returns for a context that is done.
CtxReply ==
    [Reply EXCEPT !.code = IF ctx.done = "deadline" THEN 4 ELSE 1]

\* conn.Invoke is entered.
GRPCInvokeStart(md) ==
    LET t == GRPCTarget(call.req)
    IN  /\ call.pc = "do" /\ call.invoker = "grpc"
        /\ md \in MetadataOutcomes(call.req.Headers)
        /\ call' = IF Done(ctx)
                   THEN Returned([call EXCEPT !.reply = CtxReply],
                                 GRPCAfter(call.req, CtxReply))
                   ELSE [call EXCEPT
                           !.pc  = "inflight",
                           !.net = Append(@, NetOp("send", "grpc", t.target, t.creds, md))]
        /\ ctx' = IF Done(ctx) THEN [ctx EXCEPT !.conn = "closed"] ELSE ctx
        /\ UNCHANGED <<reloadVars, doc, config, lib, gen, watch>>

\* conn.Invoke returns with the upstream's answer; Invoke returns and the
\* deferred conn.Close() runs.
GRPCInvokeReply(reply) ==
    /\ call.pc = "inflight" /\ call.invoker = "grpc"
    /\ ~Done(ctx)
    /\ call' = Returned([call EXCEPT !.reply = reply], GRPCAfter(call.req, reply))
    /\ ctx' = [ctx EXCEPT !.conn = "closed"]
    /\ UNCHANGED <<reloadVars, doc, config, lib, gen, watch>>

\* conn.Invoke returns with the context's status.
GRPCInvokeAbandon ==
    /\ call.pc = "inflight" /\ call.invoker = "grpc"
    /\ Done(ctx)
    /\ call' = Returned([call EXCEPT !.reply = CtxReply], GRPCAfter(call.req, CtxReply))
    /\ ctx' = [ctx EXCEPT !.conn = "closed"]
    /\ UNCHANGED <<reloadVars, doc, config, lib, gen, watch>>

(***************************************************************************)
(* The two specifications.                                                 *)
(***************************************************************************)
\* main: the registry of the proto root as it is at start (none without a
\* root), the server built by NewWithTheme, no request yet.
InitServer(reg, cfg) ==
    /\ fsVersion = 1
    /\ events = 0
    /\ timer = "none"
    /\ reload = [r \in Reloaders |-> IdleReload]
    /\ nextId = 1
    /\ mu = 0
    /\ registry = reg
    /\ searchIndex = BuildSearchIndex(reg)
    /\ handed = {reg}
    /\ doc = IdleDoc
    /\ config = cfg
    /\ call = IdleCall
    /\ lib = IdleLib
    /\ gen = IdleGen
    /\ ctx = IdleCtx
    /\ watch = IdleWatch

Init ==
    \E reg \in {NilRegistry, buildRegistry(0, 1)}, cfg \in LoadedConfigs \cup {NilConfig} :
        InitServer(reg, cfg)

Next ==
    \/ \E form \in TryItRequests : Receive(form)
    \/ TryItGetRegistry
    \/ TryItResolve
    \/ TryItRespond
    \/ \E invoker \in Invokers, req \in DirectRequests : DirectInvoke(invoker, req)
    \/ InvokeConnect
    \/ \E reply \in ConnectReplies,
          headers \in SetHeadersOutcomes(ConnectProtocolHeaders, call.req.Headers) :
            ConnectDo(reply, headers)
    \/ InvokeGRPCWeb
    \/ \E reply \in GRPCWebReplies,
          headers \in SetHeadersOutcomes(GRPCWebProtocolHeaders, call.req.Headers) :
            GRPCWebDo(reply, headers)
    \/ InvokeGRPC
    \/ \E outcome \in GRPCDialOutcomes : GRPCDial(outcome)
    \/ \E reply \in GRPCReplies, md \in MetadataOutcomes(call.req.Headers) :
            GRPCInvoke(reply, md)

Spec == Init /\ [][Next]_vars

\* Dev mode: the watcher and its reloads run beside the handlers.
ReloadConfig == Load(RawConfig(<<EnvDev, EnvProd, EnvWeb>>, << >>, 0, 0)).cfg
ReloadForms ==
    { TryItRequest("dev", m, "", TRUE, << >>, Body(0, "empty")) : m \in MethodNames }

InitReload == InitServer(buildRegistry(0, 1), ReloadConfig)

NextReload ==
    \/ FsWrite
    \/ WatcherEvent
    \/ \E r \in Reloaders : TimerFire(r)
    \/ \E r \in Reloaders, parsed \in BOOLEAN : LoadDirectory(r, parsed)
    \/ \E r \in Reloaders : BuildStep(r)
    \/ \E r \in Reloaders : SetRegistryBuildIndex(r)
    \/ \E r \in Reloaders : SetRegistryLock(r)
    \/ \E r \in Reloaders : SetRegistryStoreRegistry(r)
    \/ \E r \in Reloaders : SetRegistryStoreIndex(r)
    \/ \E r \in Reloaders : SetRegistryUnlock(r)
    \/ \E fullName \in TypeNames : TypeDetailStart(fullName)
    \/ TypeDetailBuildIndex
    \/ \E reuse \in BOOLEAN : TypeDetailBuildMessageView(reuse)
    \/ \E reuse \in BOOLEAN : TypeDetailBuildEnumView(reuse)
    \/ \E query \in Queries : HandleSearch(query)
    \/ \E form \in ReloadForms : Receive(form)
    \/ TryItGetRegistry
    \/ TryItResolve

SpecReload == InitReload /\ [][NextReload]_vars

\* The gateway and a caller of the package invoking under a context.  The
\* invoker's own steps are taken when they can be (its goroutine runs), and
\* the deadline timer of the handler's context fires; nothing makes the
\* upstream answer.
DeadlineForms ==
    { TryItRequest(e, <<"svc", 1, 1>>, "", TRUE, << >>, b) :
        e \in {"dev", "prod"}, b \in {Body(0, "empty"), Body(8, "invalid")} }
DeadlineRequests ==
    { Request("dev", [name |-> <<"svc", 1, 1>>, ver |-> 1], "", u, FALSE, << >>,
              Body(8, "valid"), DefaultRequestTimeoutSeconds) :
        u \in {URLPlain, URLNoScheme} }

InitDeadline == InitServer(buildRegistry(0, 1), ReloadConfig)

InvokerSteps ==
    \/ TryItGetRegistry
    \/ TryItResolve
    \/ TryItRespond
    \/ InvokeConnect
    \/ InvokeGRPCWeb
    \/ InvokeGRPC
    \/ \E headers \in SetHeadersOutcomes(HTTPProtocolHeaders, call.req.Headers) :
            HTTPSend(headers)
    \/ HTTPAbandon
    \/ HTTPReadAll
    \/ HTTPReadAbandon
    \/ \E outcome \in GRPCDialOutcomes : GRPCDialConn(outcome)
    \/ \E md \in MetadataOutcomes(call.req.Headers) : GRPCInvokeStart(md)
    \/ GRPCInvokeAbandon

NextDeadline ==
    \/ \E form \in DeadlineForms : Receive(form)
    \/ \E invoker \in Invokers, req \in DeadlineRequests : DirectInvoke(invoker, req)
    \/ InvokerSteps
    \/ CtxDeadline
    \/ CtxCancel
    \/ \E reply \in HTTPReplies : HTTPResponse(reply)
    \/ \E reply \in GRPCReplies : GRPCInvokeReply(reply)

SpecDeadline ==
    InitDeadline /\ [][NextDeadline]_vars /\ WF_vars(InvokerSteps) /\ WF_vars(CtxDeadline)


(***************************************************************************)
(* Properties.                                                             *)
(***************************************************************************)
\* What the claims say of the invocation in progress.
Sends == SelectSeq(call.net, LAMBDA o : o.op = "send")
Dials == SelectSeq(call.net, LAMBDA o : o.op = "dial")
InvokeReturned == call.ret.kind # "none"
EnvironmentsNamed(name) ==
    { e \in SeqToSet(config.Environments) : e.Name = name }
\* The host an address names: of a URL its host, of a dial target what
\* comes before the first slash.
Authority(addr) ==
    IF urlParse(addr).Scheme # << >> THEN urlParse(addr).Host
    ELSE IF IndexFrom(addr, "/", 1) = 0 THEN addr
    ELSE Prefix(addr, IndexFrom(addr, "/", 1) - 1)

\* C1: whatever registry a handler does its lookups in (the Try It
\* handler's copy, the registry a documentation handler read, the server's
\* current registry itself) is a registry that was handed whole to the
\* server: fully indexed, never half-built, at every point of a reload.
C1_HandlersSeeWholeRegistries ==
    \A reg \in {call.reg, doc.reg, registry} \ {NilRegistry} :
        /\ reg \in handed
        /\ reg.indexed = FilesPerVersion
        /\ WholeRegistry(reg)

\* C1 witness: the Try It handler has looked a method up in the old
\* registry it copied before the swap, a documentation handler has looked
\* up in a reloaded one, and another reload is in the middle of its swap.
C1_LookupsAroundSwap ==
    /\ call.pc \in {"invoke", "done"} /\ call.reg.id = 0
    /\ doc.pc = "done" /\ doc.reg.id > 0
    /\ mu # 0

\* C2: a type-detail request that is answered combines a sidebar index and
\* a type view taken from one and the same registry, also when SetRegistry
\* runs while the request is handled.
C2_OneSnapshotPerRequest ==
    (doc.pc = "done" /\ doc.handler = "typeDetail" /\ doc.status = 200)
        => doc.indexFrom = doc.viewFrom

C4_InvokeReturnsResponseOrPreflightError ==
    InvokeReturned =>
        /\ call.ret.kind \in {"response", "error"}
        /\ call.ret.kind = "error" => RequestValidate(call.req) # ""

\* C5: an upstream reply with a non-success HTTP status (Connect, gRPC-Web)
\* or a non-OK gRPC status (gRPC) yields a Response with Error set.
C5_UpstreamFailureIsNeverSuccess ==
    ( /\ InvokeReturned
      /\ Len(Sends) > 0
      /\ ~call.reply.doErr /\ ~call.reply.readErr
      /\ IF call.invoker = "grpc" THEN call.reply.code # CodeOK
                                  ELSE call.reply.StatusCode # StatusOK )
        => /\ call.ret.kind = "response"
           /\ call.ret.resp.Error.set
           /\ call.out.written => ~call.out.Success

\* C6: a posted body larger than the configured maxRequestBodyBytes is
\* rejected by the gateway, and a request whose timeout is not positive by
\* the invoker, in both cases with an error and with nothing dialed or sent.
C6_OversizeOrNoTimeoutNeverReachesNetwork ==
    /\ ( /\ call.origin = "gateway" /\ config # NilConfig
         /\ call.form.Body.size > config.MaxRequestBodyBytes )
       => /\ call.net = << >>
          /\ call.pc = "done"
          /\ call.out.Error.set /\ ~call.out.Success
    /\ ( call.pc \notin {"idle", "getRegistry", "lookup", "done"}
         /\ call.req.Timeout <= 0 )
       => /\ call.net = << >>
          /\ call.pc \in {"invoke", "returned"}
          /\ InvokeReturned => call.ret.kind = "error"

\* C6 witness: the gateway has refused an oversize body with 413.
C6_OversizeRefused ==
    /\ call.origin = "gateway" /\ call.pc = "done"
    /\ call.form.Body.size > config.MaxRequestBodyBytes
    /\ call.out.status = StatusRequestEntityTooLarge

\* C7: when a valid request's non-empty body fails JSON decoding, Invoke
\* returns a Response with Error set, and when it returns the decoding
\* error nothing has been dialed or sent.
C7_DecodeFailsBeforeAnyNetworkStep ==
    ( /\ InvokeReturned
      /\ RequestValidate(call.req) = ""
      /\ call.req.JSONBody.size > 0 /\ ~JSONDecodes(call.req.JSONBody) )
        => /\ call.ret.kind = "response" => call.ret.resp.Error.set
           /\ call.ret.resp.Error.Message = "failed to parse JSON request"
                => call.net = << >>

C9_InvokerOfEffectiveTransport ==
    \A e \in EnvironmentsNamed(call.form.Environment) :
        LET t == IF call.form.Transport = "" THEN e.Transport ELSE call.form.Transport
        IN  ( /\ call.origin = "gateway" /\ call.pc = "done"
              /\ call.reg # NilRegistry
              /\ call.form.Method \in AllMethods(call.reg.ver)
              /\ t \in ValidTransports )
                => call.invoker = t

\* C10: for a header named (in any case) both by the environment's default
\* headers and by the caller's allowlisted headers, the request sent
\* upstream carries the caller's value and nothing else.
C10_CallerHeaderWins ==
    call.origin = "gateway" =>
        \A i \in DOMAIN Sends : \A e \in EnvironmentsNamed(call.form.Environment) :
            LET filtered == FilterHeaders(call.form.Headers, config.HeaderAllowlist)
            IN  \A k \in DOMAIN filtered :
                  ToLower(k) \in { ToLower(d) : d \in DOMAIN e.DefaultHeaders }
                    => IF Sends[i].proto = "grpc"
                       THEN Sends[i].headers[ToLower(k)] = <<filtered[k]>>
                       ELSE Sends[i].headers[CanonicalMIMEHeaderKey(k)] = filtered[k]

(***************************************************************************)
(* The packages' functions called on their own (as their tests call        *)
(* them): the input is drawn from a bounded set, the result is kept.       *)
(***************************************************************************)
\* in and out are records (of the arguments, of the results).
LibCall(fn, in, out) == [fn |-> fn, in |-> in, out |-> out]

\* Header names in two casings, and the maps and allowlists made of them.
HdrFooCanon   == <<"x-foo", "canon">>
HdrTraceLower == <<"x-trace", "lower">>
LibHeaderNames == {HdrAuthLower, HdrAuthCanon, HdrFooCanon, HdrTraceLower}
LibHeaderValues == {"x", "y"}
LibHeaderMaps ==
    UNION { [keys -> LibHeaderValues] : keys \in SUBSET LibHeaderNames }
MaxAllowlist == 2
LibAllowlists ==
    UNION { [1..n -> LibHeaderNames] : n \in 0..MaxAllowlist }

CallFilterHeaders(headers, allowlist) ==
    /\ lib.fn = "none"
    /\ lib' = LibCall("FilterHeaders", [headers |-> headers, allowlist |-> allowlist],
                      [headers |-> FilterHeaders(headers, allowlist)])
    /\ UNCHANGED <<reloadVars, doc, config, call, gen, ctx, watch>>

\* C11: FilterHeaders with a non-empty allowlist returns exactly the input
\* entries whose name Config.IsHeaderAllowed allows under that allowlist
\* (equal to an allowlist entry ignoring case), each under the input's key
\* and with the input's value; with an empty allowlist it returns every
\* input header.
C11_FilterHeadersIsTheAllowlistDecision ==
    lib.fn = "FilterHeaders" =>
        LET headers   == lib.in.headers
            allowlist == lib.in.allowlist
            c         == [HeaderAllowlist |-> allowlist]
        IN  IF Len(allowlist) = 0
            THEN lib.out.headers = headers
            ELSE /\ DOMAIN lib.out.headers = { k \in DOMAIN headers : IsHeaderAllowed(c, k) }
                 /\ \A k \in DOMAIN lib.out.headers : lib.out.headers[k] = headers[k]
                 /\ \A k \in DOMAIN headers :
                        (k \in DOMAIN lib.out.headers) <=>
                            \E i \in 1..Len(allowlist) : allowlist[i][1] = k[1]

\* Allowlist ["authorization"] on {"Authorization": "x", "X-Foo": "y"}: only
\* the authorization header is returned, in the input's casing.
C11_AllowlistKeepsInputCasing ==
    /\ lib.fn = "FilterHeaders"
    /\ lib.in.allowlist = <<HdrAuthLower>>
    /\ lib.in.headers = (HdrAuthCanon :> "x") @@ (HdrFooCanon :> "y")
    /\ lib.out.headers = (HdrAuthCanon :> "x")

\* Response bodies: up to two frames (data, trailer, unknown flag) over short
\* payloads, and every prefix of such a body (a body cut anywhere).
MaxPayload == 2
LibBytes == {0, 7, 128}
LibPayloads == UNION { [1..n -> LibBytes] : n \in 0..MaxPayload }
LibFrames ==
    { <<flag>> \o PutUint32(Len(payload)) \o payload :
        flag \in {0, 128, 1}, payload \in LibPayloads }
LibBodies ==
    LET whole == {<< >>} \cup LibFrames \cup { a \o b : a \in LibFrames, b \in LibFrames }
    IN  UNION { { SubSeq(b, 1, n) : n \in 0..Len(b) } : b \in whole }

CallParseGRPCWebFrame(data) ==
    /\ lib.fn = "none"
    /\ lib' = LibCall("parseGRPCWebFrame", [data |-> data], parseGRPCWebFrame(data))
    /\ UNCHANGED <<reloadVars, doc, config, call, gen, ctx, watch>>

\* GRPCWebInvoker.Invoke from the upstream's reply on, for a valid request:
\* the bodies above under the binary and the text content type, and the text
\* form of a data frame whole and cut.
LibRequest ==
    Request("dev", [name |-> <<"svc", 1, 1>>, ver |-> 1], "", URLPlain, FALSE, << >>,
            Body(0, "empty"), DefaultRequestTimeoutSeconds)
LibReplies ==
    { [Reply EXCEPT !.bytes = b, !.ContentType = ct] :
        b \in LibBodies \cup { SubSeq(PayloadText, 1, n) : n \in 0..Len(PayloadText) },
        ct \in {Reply.ContentType, TextType} }

CallGRPCWebInvoke(reply) ==
    /\ lib.fn = "none"
    /\ lib' = LibCall("GRPCWebInvoker.Invoke", [req |-> LibRequest, reply |-> reply],
                      GRPCWebAfter(LibRequest, reply))
    /\ UNCHANGED <<reloadVars, doc, config, call, gen, ctx, watch>>

(***************************************************************************)
(* The descriptor sets given to the registry functions: file 1 (package    *)
(* pkg) declares a service, the message Outer with messages nested down to *)
(* a chosen depth (Outer.Inner, Outer.Inner.Deep), enums at every level    *)
(* and, optionally, a top-level message that is also called Inner; file 2  *)
(* (package other) declares a message and a service of the same short      *)
(* names.                                                                  *)
(***************************************************************************)
MaxNesting == 2

FieldProto(name) == [Name |-> name]
EnumProto(name, values) == [Name |-> name, Value |-> values]
MessageProto(name, fields, nested, enums) ==
    [Name |-> name, Field |-> fields, NestedType |-> nested, EnumType |-> enums]
ServiceProto(name, methods) ==
    [Name |-> name, Method |-> [i \in DOMAIN methods |-> [Name |-> methods[i]]]]
FileProto(package, services, messages, enums, info) ==
    [Package |-> package, Service |-> services, MessageType |-> messages,
     EnumType |-> enums, SourceCodeInfo |-> info]

\* SourceCodeInfo: nil, or the list of locations (Path, LeadingComments).
NilSourceCodeInfo == [nil |-> TRUE, Location |-> << >>]
SourceCodeInfo(locations) == [nil |-> FALSE, Location |-> locations]

DeepMessage ==
    MessageProto("Deep", <<FieldProto("c")>>, << >>,
                 <<EnumProto("Level", <<"L0", "L1">>)>>)
InnerMessage(depth) ==
    MessageProto("Inner", <<FieldProto("b")>>,
                 IF depth >= 2 THEN <<DeepMessage>> ELSE << >>,
                 <<EnumProto("Kind", <<"K0">>)>>)
OuterMessage(depth) ==
    MessageProto("Outer", <<FieldProto("a"), FieldProto("b")>>,
                 IF depth >= 1 THEN <<InnerMessage(depth)>> ELSE << >>,
                 <<EnumProto("State", <<"S0">>)>>)
TopInnerMessage == MessageProto("Inner", <<FieldProto("b")>>, << >>, << >>)

LibFileSet(depth, topInner, info1, info2) ==
    << FileProto(<<"pkg">>, <<ServiceProto("Svc", <<"Get", "List">>)>>,
                 <<OuterMessage(depth)>> \o (IF topInner THEN <<TopInnerMessage>> ELSE << >>),
                 <<EnumProto("Color", <<"RED", "GREEN">>)>>, info1),
       FileProto(<<"other">>, <<ServiceProto("Svc", <<"Get">>)>>,
                 <<MessageProto("Outer", <<FieldProto("a")>>, << >>, << >>)>>,
                 << >>, info2) >>

LibFileSets ==
    { LibFileSet(depth, topInner, NilSourceCodeInfo, NilSourceCodeInfo) :
        depth \in 0..MaxNesting, topInner \in BOOLEAN }

\* The names looked up: names some set declares (of every kind, so that a
\* name of one kind is also tried in the maps of the others), and names no
\* set declares.
LibNames ==
    { <<"pkg", "Svc">>, <<"other", "Svc">>,
      <<"pkg", "Svc", "/", "Get">>, <<"pkg", "Svc", "/", "List">>,
      <<"other", "Svc", "/", "Get">>, <<"other", "Svc", "/", "List">>,
      <<"pkg", "Svc", "Get">>,
      <<"pkg", "Outer">>, <<"pkg", "Outer", "Inner">>,
      <<"pkg", "Outer", "Inner", "Deep">>, <<"pkg", "Inner">>, <<"pkg", "Deep">>,
      <<"other", "Outer">>, <<"other", "Outer", "Inner">>, <<"Outer">>,
      <<"pkg", "Color">>, <<"pkg", "Outer", "State">>, <<"pkg", "State">>,
      <<"pkg", "Outer", "Inner", "Kind">>, <<"pkg", "Kind">>,
      <<"pkg", "Outer", "Inner", "Deep", "Level">>,
      <<"non", "existent", "Name">>, << >> }

\* LoadDirectory's registry of a structured set, comments aside.
LoadFileSet(files) == RangeFiles(files, Len(files), EmptyRegistry(0, 0))

Find(find, reg, fullName) ==
    CASE find = "FindService" -> FindService(reg, fullName)
      [] find = "FindMethod"  -> FindMethod(reg, fullName)
      [] find = "FindMessage" -> FindMessage(reg, fullName)
      [] find = "FindEnum"    -> FindEnum(reg, fullName)

CallFind(find, files, fullName) ==
    /\ lib.fn = "none"
    /\ lib' = LibCall(find, [files |-> files, fullName |-> fullName],
                      Find(find, LoadFileSet(files), fullName))
    /\ UNCHANGED <<reloadVars, doc, config, call, gen, ctx, watch>>

(***************************************************************************)
(* The source info of a file, as the parser writes it: one location per    *)
(* declared element, at the element's structural path.  The leading        *)
(* comment of an element is modelled by the element's own full name (the   *)
(* text "documents pkg.Outer.Inner"), so that a comment tells which        *)
(* element it was written on.                                              *)
(***************************************************************************)
Location(path, comment) == [Path |-> path, LeadingComments |-> comment]

RECURSIVE Concat(_)
Concat(seqs) == IF seqs = << >> THEN << >> ELSE Head(seqs) \o Concat(Tail(seqs))

MemberLocations(names, path, owner) ==
    [ i \in DOMAIN names |-> Location(path \o <<2, i - 1>>, owner \o <<names[i]>>) ]

EnumLocations(enum, path, parent) ==
    <<Location(path, ChildFullName(parent, enum.Name))>>
    \o MemberLocations(enum.Value, path, ChildFullName(parent, enum.Name))

RECURSIVE MessageLocations(_, _, _)
MessageLocations(message, path, parent) ==
    LET fullName == ChildFullName(parent, message.Name)
    IN  <<Location(path, fullName)>>
        \o MemberLocations([i \in DOMAIN message.Field |-> message.Field[i].Name],
                           path, fullName)
        \o Concat([ i \in DOMAIN message.NestedType |->
                      MessageLocations(message.NestedType[i], path \o <<3, i - 1>>,
                                       fullName) ])
        \o Concat([ i \in DOMAIN message.EnumType |->
                      EnumLocations(message.EnumType[i], path \o <<4, i - 1>>, fullName) ])

ServiceLocations(service, path, package) ==
    <<Location(path, ChildFullName(package, service.Name))>>
    \o MemberLocations([i \in DOMAIN service.Method |-> service.Method[i].Name],
                       path, ChildFullName(package, service.Name) \o <<"/">>)

FileLocations(file) ==
    Concat([ i \in DOMAIN file.Service |->
               ServiceLocations(file.Service[i], <<6, i - 1>>, file.Package) ])
    \o Concat([ i \in DOMAIN file.MessageType |->
                  MessageLocations(file.MessageType[i], <<4, i - 1>>, file.Package) ])
    \o Concat([ i \in DOMAIN file.EnumType |->
                  EnumLocations(file.EnumType[i], <<5, i - 1>>, file.Package) ])

\* Every location present; all of them commented (n = 0) or only the n-th.
CommentedAt(locations, n) ==
    [ i \in DOMAIN locations |->
        IF n = 0 \/ i = n THEN locations[i]
        ELSE Location(locations[i].Path, NoComment) ]

LibCommentedFileSets ==
    UNION { LET bare == LibFileSet(depth, topInner, NilSourceCodeInfo, NilSourceCodeInfo)
                all1 == FileLocations(bare[1])
                all2 == FileLocations(bare[2])
            IN  { LibFileSet(depth, topInner, SourceCodeInfo(CommentedAt(all1, n)), info2) :
                    n \in 0..Len(all1),
                    info2 \in {NilSourceCodeInfo, SourceCodeInfo(all2)} } :
            depth \in 0..MaxNesting, topInner \in BOOLEAN }

\* buildRegistry, from the indexing of the files to the comment index.
CallBuildRegistry(files) ==
    /\ lib.fn = "none"
    /\ lib' = LibCall("buildRegistry", [files |-> files],
                      buildCommentIndex(files, LoadFileSet(files)))
    /\ UNCHANGED <<reloadVars, doc, config, call, gen, ctx, watch>>

\* The schemas the example generator is called on.  link is the form of
\* the field that leads from one message of the chain pkg.M1 .. pkg.M4 to
\* the next: a message field, a repeated one, a map value, the first member
\* of a oneof, or a proto2 group.
MaxDepthOption == 4
LibLinks == {"message", "repeated", "map", "oneof", "group"}
LinkField(name, target, link) ==
    LET base == [ScalarField(name, "message") EXCEPT !.Message = target]
    IN  CASE link = "repeated" -> [base EXCEPT !.Cardinality = "repeated"]
          [] link = "map" -> [base EXCEPT !.Cardinality = "repeated", !.IsMap = TRUE,
                                          !.KeyKind = "string", !.ValueKind = "message"]
          [] link = "oneof" -> [base EXCEPT !.Oneof = "choice"]
          [] link = "group" -> [base EXCEPT !.Kind = "group"]
          [] OTHER -> base
ColorEnum == << [Name |-> "COLOR_UNSPECIFIED", Number |-> 0], [Name |-> "COLOR_RED", Number |-> 1] >>
LibSchema(link) ==
    [ m \in { "pkg.M1", "pkg.M2", "pkg.M3", "pkg.M4", "pkg.A", "pkg.B", "pkg.C", "pkg.D",
              "pkg.Self", "pkg.Ping", "pkg.Pong", "pkg.Empty",
              "google.protobuf.Timestamp" } |->
        CASE m = "pkg.M1" -> << LinkField("next", "pkg.M2", link), ScalarField("name", "string") >>
          [] m = "pkg.M2" -> << LinkField("next", "pkg.M3", link),
                                [ScalarField("alt", "string") EXCEPT !.Oneof = "choice"] >>
          [] m = "pkg.M3" -> << [ScalarField("id", "int64") EXCEPT !.Cardinality = "required"],
                                LinkField("next", "pkg.M4", link) >>
          [] m = "pkg.M4" ->
               << ScalarField("flag", "bool"),
                  [ScalarField("note", "string") EXCEPT !.HasOptionalKeyword = TRUE],
                  [ScalarField("color", "enum") EXCEPT !.Enum = ColorEnum],
                  [ScalarField("tags", "string") EXCEPT !.Cardinality = "repeated"],
                  [ScalarField("data", "bytes") EXCEPT !.JSONName = "flag"] >>
          [] m = "pkg.A" -> << LinkField("b", "pkg.B", "message"), LinkField("c", "pkg.C", link),
                               LinkField("b2", "pkg.B", "message") >>
          [] m = "pkg.B" -> << LinkField("d", "pkg.D", "message") >>
          [] m = "pkg.C" -> << LinkField("d", "pkg.D", "message"),
                               LinkField("ts", "google.protobuf.Timestamp", "message") >>
          [] m = "pkg.D" -> << ScalarField("ratio", "double"),
                               [ScalarField("none", "enum") EXCEPT !.Enum = << >>] >>
          [] m = "pkg.Self" -> << LinkField("self", "pkg.Self", link), ScalarField("n", "int32") >>
          [] m = "pkg.Ping" -> << LinkField("pong", "pkg.Pong", "message") >>
          [] m = "pkg.Pong" -> << LinkField("ping", "pkg.Ping", link) >>
          [] m = "google.protobuf.Timestamp" ->
               << ScalarField("seconds", "int64"), ScalarField("nanos", "int32") >>
          [] OTHER -> << >> ]
LibMessages == DOMAIN LibSchema("message")
LargeMaxDepth == 100
LibOptions ==
    [ MaxDepth : (0 .. MaxDepthOption) \cup {LargeMaxDepth}, MinimalMode : BOOLEAN,
      IncludeOptional : BOOLEAN ]

\* GenerateExampleJSON(msg, options) on a message of a schema.
CallGenerateExampleJSON(link, message, options) ==
    /\ lib.fn = "none"
    /\ lib' = LibCall("GenerateExampleJSON",
                      [link |-> link, message |-> message, options |-> options],
                      GenerateExampleJSON(LibSchema(link), message, options))
    /\ UNCHANGED <<reloadVars, doc, config, call, gen, ctx, watch>>

(***************************************************************************)
(* docs.SearchIndex.Search and calculateScore on items whose name, full    *)
(* name and comment are sequences of characters.                           *)
(***************************************************************************)
MaxResults == 20
ShortName == 20

\* The characters of the names in byte order, and strings.ToLower on them.
Chars == <<".", "/", "G", "T", "U", "a", "b", "e", "g", "r", "s", "t", "u", "z">>
Ord(c) == CHOOSE i \in DOMAIN Chars : Chars[i] = c
LowerChar(c) ==
    CASE c = "G" -> "g" [] c = "T" -> "t" [] c = "U" -> "u"
      [] c = "O" -> "o" [] c = "P" -> "p" [] c = "R" -> "r" [] OTHER -> c
stringsToLower(s) == [i \in DOMAIN s |-> LowerChar(s[i])]
HasPrefix(s, prefix) == Len(prefix) <= Len(s) /\ SubSeq(s, 1, Len(prefix)) = prefix
Contains(s, sub) ==
    \E i \in 0 .. (Len(s) - Len(sub)) : SubSeq(s, i + 1, i + Len(sub)) = sub
\* a < b on strings: byte by byte.
RECURSIVE StringLess(_, _)
StringLess(a, b) ==
    IF Len(b) = 0 THEN FALSE
    ELSE IF Len(a) = 0 THEN TRUE
    ELSE IF a[1] # b[1] THEN Ord(a[1]) < Ord(b[1])
    ELSE StringLess(Tail(a), Tail(b))
\* The item types as strings.
TypeLess(a, b) ==
    LET order == <<"enum", "message", "method", "service">>
        rank(t) == CHOOSE i \in DOMAIN order : order[i] = t
    IN  rank(a) < rank(b)

SearchItem(type, name, fullName, comment) ==
    [Type |-> type, Name |-> name, FullName |-> fullName, Comment |-> comment]

\* calculateScore(item, query), query in lower case.
calculateScore(item, query) ==
    LET lowerName     == stringsToLower(item.Name)
        lowerFullName == stringsToLower(item.FullName)
        lowerComment  == stringsToLower(item.Comment)
    IN    (IF lowerName = query THEN 100 ELSE 0)
        + (IF HasPrefix(lowerName, query) THEN 50 ELSE 0)
        + (IF Contains(lowerName, query) THEN 25 ELSE 0)
        + (IF HasPrefix(lowerFullName, query) THEN 40 ELSE 0)
        + (IF Contains(lowerFullName, query) THEN 20 ELSE 0)
        + (IF Contains(lowerComment, query) THEN 10 ELSE 0)
        + (IF Len(item.Name) < ShortName THEN 5 ELSE 0)

\* The less function of Search's sort.Slice.
ResultLess(a, b) ==
    IF a.Score # b.Score THEN a.Score > b.Score
    ELSE IF a.item.Type # b.item.Type THEN TypeLess(a.item.Type, b.item.Type)
    ELSE StringLess(a.item.Name, b.item.Name)

\* sort.Slice: every order of the results that agrees with less (the sort
\* is not stable, and the items come in the order of a map's range).
RECURSIVE SortOutcomes(_)
SortOutcomes(results) ==
    IF results = {} THEN { << >> }
    ELSE UNION { { <<first>> \o rest : rest \in SortOutcomes(results \ {first}) } :
                 first \in { r \in results : \A o \in results : ~ResultLess(o, r) } }

\* SearchIndex.Search(query): the results it may return.
SearchIndexSearch(items, query) ==
    IF Len(query) < 2 THEN { << >> }
    ELSE LET lower   == stringsToLower(query)
             results == { [item |-> item, Score |-> calculateScore(item, lower)] :
                          item \in { i \in items : calculateScore(i, lower) > 0 } }
         IN  { IF Len(sorted) > MaxResults THEN SubSeq(sorted, 1, MaxResults) ELSE sorted :
               sorted \in SortOutcomes(results) }

\* The indexes and queries Search is called on.
StrUser == <<"U", "s", "e", "r">>
LongName == [i \in 1 .. ShortName |-> "s"]
LibItems ==
    { SearchItem("service", StrUser, <<"a", ".">> \o StrUser, << >>),
      SearchItem("method", <<"G", "e", "t">>, <<"a", ".">> \o StrUser \o <<"/", "G", "e", "t">>,
                 <<"g", "e", "t", "s", "a", "u", "s", "e", "r">>),
      SearchItem("message", StrUser, <<"b", ".">> \o StrUser, << >>),
      SearchItem("message", StrUser, <<"a", ".", "T", "a", "g", ".">> \o StrUser, << >>),
      SearchItem("message", <<"T", "a", "g">>, <<"a", ".", "T", "a", "g">>, << >>),
      SearchItem("enum", LongName, <<"a", ".">> \o LongName, << >>) }
\* More items than Search returns: 25 messages u?? of package a.
ManyItems ==
    { SearchItem("message", <<"u", c, d>>, <<"a", ".", "u", c, d>>, << >>) :
        c \in {"a", "b", "e", "r", "s"}, d \in {"a", "b", "e", "r", "s"} }
LibIndexes == SUBSET LibItems \cup {ManyItems}
LibQueries ==
    { << >>, <<"u">>, <<"u", "s">>, <<"U", "S">>, StrUser, <<"s", "s">>, <<"z", "z">>,
      <<"u", "s", "e", "r">>, <<"a", ".">> }

CallSearch(items, query, results) ==
    /\ lib.fn = "none"
    /\ results \in SearchIndexSearch(items, query)
    /\ lib' = LibCall("Search", [items |-> items, query |-> query], [results |-> results])
    /\ UNCHANGED <<reloadVars, doc, config, call, gen, ctx, watch>>

\* The configs Validate is called on: up to MaxEnvironments environments,
\* each with a name or none, a base URL put together from a scheme or none
\* and a host or none, with or without a port, and a transport or none.
MaxEnvironments == 2
LibEnvironmentShapes ==
    [ Name : {"", "dev", "prod"},
      scheme : {<< >>, <<"h", "t", "t", "p", "s">>},
      host : {<< >>, <<"a">>, <<"a", ":", "8">>, <<"a", ":", "x">>},
      Transport : {"", "grpc-web", "soap"} ]
LibBaseURL(shape) ==
    IF shape.scheme = << >> THEN shape.host
    ELSE shape.scheme \o <<":", "/", "/">> \o shape.host
LibEnvironment(shape) ==
    Environment(shape.Name, LibBaseURL(shape), shape.Transport, FALSE, << >>)
LibLimits == { <<0, 0>>, <<-1, 0>>, <<0, -1>> }
LibShapeLists ==
    UNION { [1 .. n -> LibEnvironmentShapes] : n \in 0 .. MaxEnvironments }

\* Config.Validate on a config.
CallConfigValidate(shapes, limits) ==
    /\ lib.fn = "none"
    /\ lib' = LibCall("Config.Validate",
                      [shapes |-> shapes, limits |-> limits],
                      [err |-> ConfigValidate(
                                   RawConfig([i \in DOMAIN shapes |-> LibEnvironment(shapes[i])],
                                             << >>, limits[1], limits[2]))])
    /\ UNCHANGED <<reloadVars, doc, config, call, gen, ctx, watch>>

(***************************************************************************)
(* GenerateExampleJSON step by step.  gen.stack holds the calls of         *)
(* generateMessageValue that are running their fields loop, the innermost  *)
(* last: the message, the field n the loop is at, the iteration i of the   *)
(* field's items loop and the depth.  The visited map holds exactly the    *)
(* messages of these calls (set on entry, deleted on return).              *)
(***************************************************************************)
MaxStack == 8

Frame(message, depth) == [message |-> message, n |-> 1, i |-> 0, depth |-> depth]
Visited(stack) == { stack[k].message : k \in DOMAIN stack }

\* generateMessageValue returns before its fields loop: at the max depth, on
\* a message of the recursion stack, on a well-known type.
ReturnsAtOnceNoGuards(message, options, visited, depth) ==
    message \in DOMAIN WellKnownTypes
ReturnsAtOnce(message, options, visited, depth) ==
    \/ depth >= options.MaxDepth
    \/ message \in visited
    \/ message \in DOMAIN WellKnownTypes

\* The field generateScalarValue is called on for a field, and how many
\* times: generateFieldValue and the loops of generateMapValue and
\* generateRepeatedValue.
ValueField(schema, message, field) ==
    CASE field.IsMap -> MapValue(field)
      [] field.Cardinality = "repeated" -> field
      [] field.Oneof # "" -> FirstOfOneof(schema[message], field.Oneof)
      [] OTHER -> field
ItemCount(field) ==
    CASE field.IsMap -> 2
      [] field.Cardinality = "repeated" -> IF field.Kind = "message" THEN 1 ELSE 2
      [] OTHER -> 1
SupportedKinds ==
    {"bool", "int32", "sint32", "sfixed32", "int64", "sint64", "sfixed64", "uint32",
     "fixed32", "uint64", "fixed64", "float", "double", "string", "bytes", "enum", "message"}

GenSchema == LibSchema(gen.link)
Top == gen.stack[Len(gen.stack)]
TopAtField == gen.pc = "running" /\ Top.n <= Len(GenSchema[Top.message])
TopField == GenSchema[Top.message][Top.n]
TopValueField == ValueField(GenSchema, Top.message, TopField)

\* The innermost call has its value for this item: the next item, or the
\* next field.
NextItem(stack) ==
    LET top   == stack[Len(stack)]
        field == LibSchema(gen.link)[top.message][top.n]
    IN  [stack EXCEPT ![Len(stack)] =
            IF top.i + 1 < ItemCount(field)
            THEN [top EXCEPT !.i = top.i + 1]
            ELSE [top EXCEPT !.n = top.n + 1, !.i = 0]]

\* GenerateExampleJSON is called: the options are defaulted and
\* generateMessageValue is entered at depth 0.
GenStart(link, message, options) ==
    /\ gen.pc = "idle"
    /\ LET defaulted == IF options.MaxDepth = 0
                        THEN [options EXCEPT !.MaxDepth = DefaultMaxDepth]
                        ELSE options
       IN  gen' = IF ReturnsAtOnce(message, defaulted, {}, 0)
                  THEN [pc |-> "returned", link |-> link, message |-> message,
                        options |-> defaulted, stack |-> << >>, err |-> FALSE,
                        entryPoints |-> {}, sentinels |-> 0]
                  ELSE [pc |-> "running", link |-> link, message |-> message,
                        options |-> defaulted, stack |-> <<Frame(message, 0)>>,
                        err |-> FALSE, entryPoints |-> {}, sentinels |-> 0]
    /\ UNCHANGED <<reloadVars, doc, config, call, lib, ctx, watch>>

\* shouldIncludeField says no: continue.
GenSkipField ==
    /\ TopAtField
    /\ ~shouldIncludeField(TopField, gen.options)
    /\ gen' = [gen EXCEPT !.stack[Len(gen.stack)] = [Top EXCEPT !.n = Top.n + 1, !.i = 0]]
    /\ UNCHANGED <<reloadVars, doc, config, call, lib, ctx, watch>>

\* generateScalarValue on a kind that is no message: a value at once.
GenScalarValue ==
    /\ TopAtField
    /\ shouldIncludeField(TopField, gen.options)
    /\ TopValueField.Kind \in SupportedKinds \ {"message"}
    /\ gen' = [gen EXCEPT !.stack = NextItem(gen.stack)]
    /\ UNCHANGED <<reloadVars, doc, config, call, lib, ctx, watch>>

\* generateScalarValue on a kind it does not know: the error goes up
\* through every caller.
GenUnsupportedKind ==
    /\ TopAtField
    /\ shouldIncludeField(TopField, gen.options)
    /\ TopValueField.Kind \notin SupportedKinds
    /\ gen' = [gen EXCEPT !.pc = "returned", !.stack = << >>, !.err = TRUE]
    /\ UNCHANGED <<reloadVars, doc, config, call, lib, ctx, watch>>

\* The call made for the item returns {"<recursive>": true}; the field at
\* hand is a cycle entry point: its own message type is on the recursion
\* stack.  A field is told by the fields that lead to it from the root.
ReturnsRecursive ==
    /\ Top.depth + 1 < gen.options.MaxDepth
    /\ TopValueField.Message \in Visited(gen.stack)
IsEntryPoint ==
    /\ TopField.Kind = "message"
    /\ TopField.Message \in Visited(gen.stack)
Stem(stack) ==
    [ k \in 1 .. Len(stack) - 1 |->
        <<LibSchema(gen.link)[stack[k].message][stack[k].n].Name, stack[k].i>> ]

\* generateScalarValue on a message: generateMessageValue one level deeper
\* returns a marker or a literal at once.
GenMessageAtOnce ==
    /\ TopAtField
    /\ shouldIncludeField(TopField, gen.options)
    /\ TopValueField.Kind = "message"
    /\ ReturnsAtOnce(TopValueField.Message, gen.options, Visited(gen.stack), Top.depth + 1)
    /\ gen' = [gen EXCEPT !.stack = NextItem(gen.stack),
                          !.sentinels = IF ReturnsRecursive THEN @ + 1 ELSE @,
                          !.entryPoints = IF IsEntryPoint
                                          THEN @ \cup {<<Stem(gen.stack), TopField.Name>>}
                                          ELSE @]
    /\ UNCHANGED <<reloadVars, doc, config, call, lib, ctx, watch>>

\* ... or starts its own fields loop.
GenMessageCall ==
    /\ TopAtField
    /\ shouldIncludeField(TopField, gen.options)
    /\ TopValueField.Kind = "message"
    /\ ~ReturnsAtOnce(TopValueField.Message, gen.options, Visited(gen.stack), Top.depth + 1)
    /\ Len(gen.stack) < MaxStack
    /\ gen' = [gen EXCEPT !.stack = Append(gen.stack,
                                           Frame(TopValueField.Message, Top.depth + 1))]
    /\ UNCHANGED <<reloadVars, doc, config, call, lib, ctx, watch>>

\* The fields loop of the innermost call is over: it returns its object, to
\* the item of its caller or to GenerateExampleJSON.
GenReturn ==
    /\ gen.pc = "running"
    /\ Top.n > Len(GenSchema[Top.message])
    /\ gen' = IF Len(gen.stack) = 1
              THEN [gen EXCEPT !.pc = "returned", !.stack = << >>]
              ELSE [gen EXCEPT !.stack = NextItem(SubSeq(gen.stack, 1, Len(gen.stack) - 1))]
    /\ UNCHANGED <<reloadVars, doc, config, call, lib, ctx, watch>>

NextGen ==
    \/ \E link \in LibLinks, message \in LibMessages, options \in LibOptions :
            GenStart(link, message, options)
    \/ GenSkipField
    \/ GenScalarValue
    \/ GenUnsupportedKind
    \/ GenMessageAtOnce
    \/ GenMessageCall
    \/ GenReturn

NextLib ==
    \/ \E headers \in LibHeaderMaps, allowlist \in LibAllowlists :
            CallFilterHeaders(headers, allowlist)
    \/ \E data \in LibBodies : CallParseGRPCWebFrame(data)
    \/ \E reply \in LibReplies : CallGRPCWebInvoke(reply)
    \/ \E find \in {"FindService", "FindMethod", "FindMessage", "FindEnum"},
          files \in LibFileSets, fullName \in LibNames :
            CallFind(find, files, fullName)
    \/ \E files \in LibCommentedFileSets : CallBuildRegistry(files)
    \/ \E link \in LibLinks, message \in LibMessages, options \in LibOptions :
            CallGenerateExampleJSON(link, message, options)

InitLib == InitServer(NilRegistry, NilConfig)

SpecLib == InitLib /\ [][NextLib]_vars

(***************************************************************************)
(* Watcher.Start on a clock.  Times are milliseconds.  The watcher's loop  *)
(* and the runtime's timer are prompt: the clock does not advance while an *)
(* event waits on the channel or a timer is due, and a timer that is due   *)
(* fires before an event of the same instant is delivered.                 *)
(***************************************************************************)
Debounce == 300
TickMs == 100
MaxTime == 800
MaxEvents == 3

HasSuffix(s, suffix) ==
    Len(suffix) <= Len(s) /\ SubSeq(s, Len(s) - Len(suffix) + 1, Len(s)) = suffix
DotProto == <<".", "p", "r", "o", "t", "o">>
\* The ops Start reloads for.
WatchedOps == {"Write", "Create", "Remove", "Rename"}

\* (Variant: a timer that is pending is left to run.)
ResetTimerKeepsPending(w) ==
    IF w.debounceTimer = NoTimer THEN w.now + Debounce ELSE w.debounceTimer
\* if debounceTimer != nil { debounceTimer.Stop() };
\* debounceTimer = time.AfterFunc(w.debounce, ...): when the timer is due.
ResetTimer(w) == w.now + Debounce

\* The events fsnotify delivers: a name and a set of ops.
FsEvents ==
    { [Name |-> <<"a">> \o DotProto, Op |-> {"Write"}],
      [Name |-> <<"a">> \o DotProto, Op |-> {"Create", "Chmod"}],
      [Name |-> <<"a">> \o DotProto, Op |-> {"Chmod"}],
      [Name |-> <<"b", ".", "P", "R", "O", "T", "O">>, Op |-> {"Rename"}],
      [Name |-> <<"p", "r", "o", "t", "o">>, Op |-> {"Remove"}],
      [Name |-> <<"a", ".", "t", "x", "t">>, Op |-> {"Write"}] }

TimerDue == watch.debounceTimer # NoTimer /\ watch.now >= watch.debounceTimer

\* fsnotify puts an event on w.watcher.Events.
FsNotify(event) ==
    /\ Len(watch.log) < MaxEvents
    /\ ~TimerDue
    /\ watch' = [watch EXCEPT !.Events = Append(@, event),
                              !.log = Append(@, [event |-> event, at |-> watch.now])]
    /\ UNCHANGED <<reloadVars, doc, config, call, lib, gen, ctx>>

\* Start's select receives an event.
StartEvent ==
    /\ watch.Events # << >>
    /\ LET event == Head(watch.Events)
       IN  watch' = [watch EXCEPT
               !.Events = Tail(@),
               !.debounceTimer =
                   IF ~HasSuffix(stringsToLower(event.Name), DotProto) THEN @
                   ELSE IF event.Op \cap WatchedOps # {} THEN ResetTimer(watch)
                   ELSE @]
    /\ UNCHANGED <<reloadVars, doc, config, call, lib, gen, ctx>>

\* The debounce timer fires: its function calls w.reloadFunc().
DebounceTimerFire ==
    /\ TimerDue
    /\ watch' = [watch EXCEPT !.debounceTimer = NoTimer,
                              !.reloads = Append(@, watch.now)]
    /\ UNCHANGED <<reloadVars, doc, config, call, lib, gen, ctx>>

\* Time passes.
Tick ==
    /\ watch.Events = << >>
    /\ ~TimerDue
    /\ watch.now + TickMs <= MaxTime
    /\ watch' = [watch EXCEPT !.now = @ + TickMs]
    /\ UNCHANGED <<reloadVars, doc, config, call, lib, gen, ctx>>

NextWatcher ==
    \/ \E event \in FsEvents : FsNotify(event)
    \/ StartEvent
    \/ DebounceTimerFire
    \/ Tick

\* Search called on the indexes above.
NextSearch ==
    \E items \in LibIndexes, query \in LibQueries :
        \E results \in SearchIndexSearch(items, query) : CallSearch(items, query, results)
SpecSearch == InitLib /\ [][NextSearch]_vars

SpecWatcher == InitLib /\ [][NextWatcher]_vars

\* Config.Validate called on the configs above.
NextValidate ==
    \E shapes \in LibShapeLists, limits \in LibLimits : CallConfigValidate(shapes, limits)
SpecValidate == InitLib /\ [][NextValidate]_vars

\* A call that has started keeps running: one goroutine, no blocking step.
SpecGen == InitLib /\ [][NextGen]_vars /\ WF_vars(NextGen)

\* C12: in every response page the gateway writes after an invocation, each
\* header of the invoker's response whose name is, ignoring case, one of the
\* sensitive names carries the single value "[REDACTED]", and every other
\* header is there under its own name with its own values.
C12_ResponseHeadersRedacted ==
    (call.origin = "gateway" /\ call.pc = "done" /\ call.ret.kind = "response") =>
        LET original == call.ret.resp.Headers
            shown    == call.out.Headers
        IN  /\ call.out.written
            /\ DOMAIN shown = DOMAIN original
            /\ \A k \in DOMAIN original :
                  IF k[1] \in SensitiveHeaders
                  THEN shown[k] = <<Redacted>>
                  ELSE shown[k] = original[k]

\* An upstream reply carrying Set-Cookie beside an ordinary header went
\* through the gateway.
C12_SetCookieRedacted ==
    /\ call.origin = "gateway"
    /\ call.pc = "done"
    /\ call.ret.kind = "response"
    /\ call.ret.resp.Headers = CookieHeaders
    /\ call.out.Headers[<<"set-cookie", "canon">>] = <<Redacted>>
    /\ call.out.Headers[<<"x-foo", "canon">>] = <<"v">>

\* C13: for every payload p, the empty one included, the bytes 0x00, the
\* 4-byte big-endian length of p, then p (the request frame) are parsed by
\* parseGRPCWebFrame into a payload byte-identical to p, with no error.
C13_FrameRoundTrip ==
    \A p \in LibPayloads :
        (lib.fn = "parseGRPCWebFrame" /\ lib.in.data = DataFrame(p)) =>
            /\ ~lib.out.err
            /\ lib.out.data = p

\* The frame of a two-byte payload, one of them a flag-like byte, was parsed
\* back to that payload.
C13_FlagLikePayloadParsed ==
    /\ lib.fn = "parseGRPCWebFrame"
    /\ lib.in.data = DataFrame(<<128, 0>>)
    /\ lib.in.data = <<0, 0, 0, 0, 2, 128, 0>>
    /\ lib.out = [data |-> <<128, 0>>, err |-> FALSE]

\* C14: a gRPC-Web reply whose body is a data frame followed by a trailer
\* frame (flag 0x80) carrying grpc-status 5 is returned as a Response with
\* Error.Code = 5.
C14_TrailerStatusIsTheErrorCode ==
    ( /\ call.pc = "returned"
      /\ call.invoker = "grpc-web"
      /\ \E i \in DOMAIN call.net : call.net[i].op = "send"
      /\ ~call.reply.doErr /\ ~call.reply.readErr
      /\ call.reply.bytes = DataFrame(Payload) \o TrailerFrame(Trailer5) ) =>
        /\ call.ret.kind = "response"
        /\ call.ret.resp.Error.set
        /\ call.ret.resp.Error.Code = 5

\* The offsets at which a frame header starts when the frames of data are
\* walked from the first byte, each complete frame leading to the next.
RECURSIVE FrameStarts(_, _)
FrameStarts(data, offset) ==
    IF offset + 5 > Len(data) THEN {}
    ELSE LET next == offset + 5 + Uint32(SubSeq(data, offset + 2, offset + 5))
         IN  {offset} \cup (IF next > Len(data) THEN {} ELSE FrameStarts(data, next))

\* Some frame header of data declares more payload bytes than remain after it.
DeclaresMoreThanRemains(data) ==
    \E o \in FrameStarts(data, 0) :
        Uint32(SubSeq(data, o + 2, o + 5)) > Len(data) - (o + 5)

\* C15: when some frame header of a gRPC-Web response body, whatever its
\* flag and position, declares a payload longer than the bytes that remain
\* after it, parseGRPCWebFrame returns an error and no payload, and Invoke
\* returns a Response with Error set and no body: never a shortened payload,
\* never a success.
C15_OverlongFrameIsAnError ==
    /\ (lib.fn = "parseGRPCWebFrame" /\ DeclaresMoreThanRemains(lib.in.data)) =>
          (lib.out.err /\ lib.out.data = << >>)
    /\ (lib.fn = "GRPCWebInvoker.Invoke"
          /\ DeclaresMoreThanRemains(GRPCWebBody(lib.in.reply).body)) =>
          /\ lib.out.kind = "response"
          /\ lib.out.resp.Error.set
          /\ lib.out.resp.Error.Code = CodeInternal
          /\ lib.out.resp.JSONBody = ""

\* A whole data frame followed by a trailer frame one byte short of its
\* declared length came back from Invoke as an error.
C15_SecondFrameCutShort ==
    /\ lib.fn = "GRPCWebInvoker.Invoke"
    /\ lib.in.reply.bytes = <<0, 0, 0, 0, 1, 7, 128, 0, 0, 0, 2, 0>>
    /\ DeclaresMoreThanRemains(lib.in.reply.bytes)
    /\ lib.out.resp.Error.set

\* C16: a gRPC-Web reply with an empty body (zero frames) is handled without
\* failure under every content type, binary or grpc-web-text: Invoke returns
\* a Response, and with no grpc-status header that Response is OK with an
\* empty JSON body.
C16_EmptyBodyHandled ==
    ( /\ call.pc = "returned"
      /\ call.invoker = "grpc-web"
      /\ \E i \in DOMAIN call.net : call.net[i].op = "send"
      /\ ~call.reply.doErr /\ ~call.reply.readErr
      /\ call.reply.bytes = << >> ) =>
        /\ call.ret.kind = "response"
        /\ HeaderGet(call.reply.Headers, "grpc-status") = "" =>
              /\ ~call.ret.resp.Error.set
              /\ call.ret.resp.Status = CodeOK
              /\ call.ret.resp.JSONBody = ""

\* The base URL starts with the explicit scheme "http://".
HasHTTPScheme(baseURL) == Len(baseURL) >= 7 /\ SubSeq(baseURL, 1, 7) = StrHTTPColon
HasHTTPSScheme(baseURL) == Len(baseURL) >= 8 /\ SubSeq(baseURL, 1, 8) = StrHTTPSColon

\* C17: every connection the binary gRPC invoker dials is plaintext if and
\* only if the request's base URL has the explicit http:// scheme; every
\* other target is dialed with TLS, without certificate verification only
\* when the request's skip-verify flag is set; an https:// target with the
\* flag unset is dialed with verifying TLS.
C17_GRPCPlaintextOnlyForHTTPScheme ==
    \A i \in DOMAIN call.net :
        (call.net[i].op = "dial" /\ call.net[i].proto = "grpc") =>
            LET creds == call.net[i].tls
                req   == call.req
            IN  /\ (creds = "plaintext") <=> HasHTTPScheme(req.BaseURL)
                /\ creds \in {"plaintext", "tls", "tls-noverify"}
                /\ (creds = "tls-noverify") => req.InsecureSkipVerify
                /\ (HasHTTPSScheme(req.BaseURL) /\ ~req.InsecureSkipVerify) =>
                        creds = "tls"

\* An https:// target with skip-verify unset was dialed, with verifying TLS.
C17_HTTPSDialedVerifying ==
    /\ call.invoker = "grpc"
    /\ call.req.BaseURL = URLSecure
    /\ ~call.req.InsecureSkipVerify
    /\ Len(Dials) = 1
    /\ Dials[1].tls = "tls"
    /\ Dials[1].addr = <<"b">>

\* The names a descriptor set declares, by kind: what the files say, read
\* off the declarations (a nested declaration is named after its parent).
RECURSIVE MessagesUnder(_, _)
MessagesUnder(messages, parent) ==
    UNION { {ChildFullName(parent, messages[i].Name)}
            \cup MessagesUnder(messages[i].NestedType,
                               ChildFullName(parent, messages[i].Name)) :
            i \in DOMAIN messages }
RECURSIVE EnumsUnder(_, _, _)
EnumsUnder(messages, enums, parent) ==
    { ChildFullName(parent, enums[i].Name) : i \in DOMAIN enums }
    \cup UNION { EnumsUnder(messages[i].NestedType, messages[i].EnumType,
                            ChildFullName(parent, messages[i].Name)) :
                 i \in DOMAIN messages }
Declared(kind, files) ==
    UNION { LET fd == files[f]
            IN  CASE kind = "FindService" ->
                       { ChildFullName(fd.Package, fd.Service[i].Name) :
                           i \in DOMAIN fd.Service }
                  [] kind = "FindMethod" ->
                       UNION { { ChildFullName(fd.Package, fd.Service[i].Name)
                                   \o <<"/", fd.Service[i].Method[j].Name>> :
                                 j \in DOMAIN fd.Service[i].Method } :
                               i \in DOMAIN fd.Service }
                  [] kind = "FindMessage" -> MessagesUnder(fd.MessageType, fd.Package)
                  [] kind = "FindEnum" ->
                       EnumsUnder(fd.MessageType, fd.EnumType, fd.Package) :
            f \in DOMAIN files }

FindFunctions == {"FindService", "FindMethod", "FindMessage", "FindEnum"}

\* C18: each of FindService, FindMethod, FindMessage and FindEnum returns
\* found = TRUE exactly when the loaded descriptor set declares a descriptor
\* of that kind under that fully-qualified name (methods as
\* package.Service/Method; messages and enums at any nesting depth, in any
\* file), then with that descriptor; found = FALSE always comes with the
\* nil descriptor.
C18_FindIsMembership ==
    lib.fn \in FindFunctions =>
        /\ lib.out.found <=> lib.in.fullName \in Declared(lib.fn, lib.in.files)
        /\ lib.out.found => lib.out.value.name = lib.in.fullName
        /\ ~lib.out.found => lib.out.value = NilDescriptor

\* The message nested two levels down is found by its full name, in a set
\* where the short name Inner is declared twice.
C18_DeepNestedFound ==
    /\ lib.fn = "FindMessage"
    /\ lib.in.fullName = <<"pkg", "Outer", "Inner", "Deep">>
    /\ <<"pkg", "Inner">> \in Declared("FindMessage", lib.in.files)
    /\ lib.out.found
    /\ lib.out.value = DescriptorOf(<<"pkg", "Outer", "Inner", "Deep">>)

\* The comments written in the files of a set.
CommentsWritten(files) ==
    UNION { { files[f].SourceCodeInfo.Location[i].LeadingComments :
                i \in DOMAIN files[f].SourceCodeInfo.Location } :
            f \in DOMAIN files } \ {NoComment}

\* C19: every key of the comment index is the fully-qualified name of the
\* element its comment was written on (for a nested message
\* package.Outer.Inner, for its fields package.Outer.Inner.field), so every
\* comment written is retrievable under its element's full name and none is
\* stored under the name of another element.
C19_CommentKeyedByFullName ==
    lib.fn = "buildRegistry" =>
        LET index == lib.out.CommentIndex
        IN  /\ \A key \in DOMAIN index : index[key] = key
            /\ \A comment \in CommentsWritten(lib.in.files) :
                  comment \in DOMAIN index /\ index[comment] = comment


(***************************************************************************)
(* Example generation.  The type graph of a schema: a message leads to     *)
(* the message types of its fields.                                        *)
(***************************************************************************)
FieldTypes(schema, message) ==
    { schema[message][i].Message : i \in DOMAIN schema[message] } \ {""}
RECURSIVE ReachableWithin(_, _, _)
ReachableWithin(schema, from, n) ==
    IF n = 0 THEN from
    ELSE ReachableWithin(schema, from \cup UNION { FieldTypes(schema, m) : m \in from }, n - 1)
ReachableFrom(schema, from) == ReachableWithin(schema, from, Cardinality(DOMAIN schema))
Acyclic(schema, message) ==
    \A m \in ReachableFrom(schema, {message}) :
        m \notin ReachableFrom(schema, FieldTypes(schema, m))
RECURSIVE NestingDepth(_, _)
NestingDepth(schema, message) ==
    LET below == { NestingDepth(schema, m) : m \in FieldTypes(schema, message) }
    IN  IF below = {} THEN 0
        ELSE 1 + CHOOSE d \in below : \A e \in below : e <= d
EffectiveMaxDepth(options) ==
    IF options.MaxDepth = 0 THEN DefaultMaxDepth ELSE options.MaxDepth
HasMarker(paths) ==
    \E p \in paths : \E i \in DOMAIN p : p[i] \in {"<max_depth_reached>", "<recursive>"}

\* C20: for a message whose type graph is acyclic and whose nesting depth is
\* below the max depth in force, GenerateExampleJSON returns no error and an
\* object holding neither a <max_depth_reached> nor a <recursive> marker.
C20_AcyclicWithinDepthGivesPlainExample ==
    (/\ lib.fn = "GenerateExampleJSON"
     /\ Acyclic(LibSchema(lib.in.link), lib.in.message)
     /\ NestingDepth(LibSchema(lib.in.link), lib.in.message)
            < EffectiveMaxDepth(lib.in.options))
        => /\ ~lib.out.err
           /\ <<"{">> \in lib.out.paths
           /\ ~HasMarker(lib.out.paths)


\* C21: every call of GenerateExampleJSON returns, on self-referential and
\* mutually recursive schemas too, through a message field, a repeated
\* field, a map or a oneof, and for every max depth (unset, small, large).
C21_GenerateExampleJSONReturns ==
    [](gen.pc = "running" => <>(gen.pc = "returned"))

\* A mutually recursive schema, entered through a map, with a max depth far
\* above the number of messages, has returned.
C21_MutualRecursionReturned ==
    /\ gen.pc = "returned"
    /\ gen.message = "pkg.Ping"
    /\ gen.link = "map"
    /\ gen.options.MaxDepth = LargeMaxDepth
    /\ ~gen.options.MinimalMode
    /\ ~gen.err


\* C22: in a generated example each cycle entry point, a field whose message
\* type is on the recursion stack, contributes at most one <recursive>
\* sentinel, whether the field is singular, repeated, a map or a oneof member.
C22_OneSentinelPerEntryPoint ==
    gen.sentinels <= Cardinality(gen.entryPoints)


OneofMembers(fields, oneof) == { i \in DOMAIN fields : fields[i].Oneof = oneof }
HasKey(paths, key) == \E p \in paths : Len(p) > 1 /\ p[1] = key

\* C23: of a oneof with several declared members, the generated object holds
\* the key of the first declared member, with that member's example value,
\* and the key of no other member.
C23_OnlyFirstOneofMember ==
    (/\ lib.fn = "GenerateExampleJSON"
     /\ ~lib.out.err
     /\ ~lib.in.options.MinimalMode
     /\ lib.in.message \notin DOMAIN WellKnownTypes)
        => LET schema == LibSchema(lib.in.link)
               fields == schema[lib.in.message]
               options == [lib.in.options EXCEPT !.MaxDepth = EffectiveMaxDepth(lib.in.options)]
           IN  \A i \in DOMAIN fields :
                   (fields[i].Oneof # "" /\ Cardinality(OneofMembers(fields, fields[i].Oneof)) > 1)
                       => LET first == FirstOfOneof(fields, fields[i].Oneof)
                          IN  IF fields[i] = first
                              THEN Under(<<first.JSONName>>,
                                         generateScalarValue(schema, first, options,
                                                             {lib.in.message}, 0))
                                       \subseteq lib.out.paths
                              ELSE ~HasKey(lib.out.paths, fields[i].JSONName)


IsPrefix(prefix, p) == Len(p) > Len(prefix) /\ SubSeq(p, 1, Len(prefix)) = prefix
PathsAt(paths, prefix) == { p \in paths : IsPrefix(prefix, p) }

\* C24: a field of a well-known type that is included in a generated example
\* has the fixed literal of the type as its value, never a depth or
\* recursion sentinel, at the root and below it.
C24_WellKnownTypeIsItsLiteral ==
    (lib.fn = "GenerateExampleJSON" /\ ~lib.out.err)
        => \A at \in { [message |-> "pkg.C", key |-> <<"ts">>],
                       [message |-> "pkg.A", key |-> <<"c", "ts">>] } :
               (/\ lib.in.message = at.message
                /\ lib.in.link = "message"
                /\ PathsAt(lib.out.paths, at.key) # {})
                   => PathsAt(lib.out.paths, at.key)
                        = Under(at.key, Value(WellKnownTypes["google.protobuf.Timestamp"]))


\* The defects of an environment and of a config, told from what the config
\* was put together from.
EnvironmentDefect(shape) ==
    \/ shape.Name = ""
    \/ shape.scheme = << >>
    \/ shape.host = << >>
    \/ shape.Transport \notin {"", "connect", "grpc", "grpc-web"}
DuplicateNames(shapes) ==
    \E i, j \in DOMAIN shapes : i < j /\ shapes[i].Name = shapes[j].Name

\* C25: Config.Validate fails when two environments share a name (with the
\* duplicate-name error when the environments are otherwise valid), when an
\* environment lacks its name or its base URL, has a base URL without scheme
\* or host, or a transport that is none of connect, grpc, grpc-web, and when
\* the body limit or the timeout is negative; it accepts every other config.
C25_ValidateRejectsExactlyTheDefects ==
    lib.fn = "Config.Validate" =>
        LET shapes == lib.in.shapes
            defect == \/ DuplicateNames(shapes)
                      \/ \E i \in DOMAIN shapes : EnvironmentDefect(shapes[i])
                      \/ lib.in.limits[1] < 0
                      \/ lib.in.limits[2] < 0
        IN  /\ (lib.out.err # "") <=> defect
            /\ (/\ DuplicateNames(shapes)
                /\ \A i \in DOMAIN shapes : ~EnvironmentDefect(shapes[i]))
                   => lib.out.err = "duplicate environment name"

\* A base URL whose host has a port that is no number.
Unparseable(shape) ==
    \E k \in DOMAIN shape.host :
        shape.host[k] = ":" /\ k < Len(shape.host) /\ shape.host[k + 1] \notin Digits

\* C25 as amended: a base URL that net/url does not parse (a port that is
\* no number) is one more defect Validate refuses; with it among the
\* defects, Validate fails on exactly the configs that have one, and two
\* environments of one name, both without defect, get the duplicate-name
\* error.
C25_ValidateRejectsDefectsAndUnparseableURLs ==
    lib.fn = "Config.Validate" =>
        LET shapes == lib.in.shapes
            defect == \/ DuplicateNames(shapes)
                      \/ \E i \in DOMAIN shapes :
                            EnvironmentDefect(shapes[i]) \/ Unparseable(shapes[i])
                      \/ lib.in.limits[1] < 0
                      \/ lib.in.limits[2] < 0
        IN  /\ (lib.out.err # "") <=> defect
            /\ (/\ DuplicateNames(shapes)
                /\ \A i \in DOMAIN shapes :
                        ~EnvironmentDefect(shapes[i]) /\ ~Unparseable(shapes[i]))
                   => lib.out.err = "duplicate environment name"

\* Two valid environments of one name are refused as duplicates.
C25_DuplicateRefused ==
    /\ lib.fn = "Config.Validate"
    /\ Len(lib.in.shapes) = 2
    /\ lib.in.shapes[1].Name = "dev"
    /\ lib.in.shapes[2].Name = "dev"
    /\ \A i \in DOMAIN lib.in.shapes : ~EnvironmentDefect(lib.in.shapes[i])
    /\ lib.in.shapes[1].host = <<"a", ":", "8">>
    /\ lib.in.limits = <<0, 0>>
    /\ lib.out.err = "duplicate environment name"


Abandoned == Done(ctx) /\ call.pc \in {"inflight", "reading"}
NothingOpen == ctx.conn # "open" /\ ctx.body # "open"

\* C26: an invocation is bounded by the gateway's deadline and by the
\* cancellation of the inbound request: a gateway invocation returns; a call
\* in flight when the context is done is abandoned and Invoke returns a
\* Response with its Error set; and whenever Invoke has returned, the
\* connection or response body it opened is closed.
C26_InvocationBoundedAndClosed ==
    /\ [](call.pc = "returned" => NothingOpen)
    /\ []((call.origin = "gateway" /\ call.pc \in InvokePcs) => <>(call.pc = "returned"))
    /\ [](Abandoned => <>(/\ call.pc = "returned"
                          /\ call.ret.kind = "response"
                          /\ call.ret.resp.Error.set
                          /\ NothingOpen))

\* A gRPC call cut off by the deadline has returned DeadlineExceeded with
\* its connection closed.
C26_DeadlineCutGRPCCall ==
    /\ call.pc = "returned"
    /\ call.invoker = "grpc"
    /\ ctx.done = "deadline"
    /\ ctx.conn = "closed"
    /\ Len(Sends) = 1
    /\ call.ret.kind = "response"
    /\ call.ret.resp.Error.Code = 4


\* The query, in lower case, occurs in the item's name, full name or comment.
Matches(item, query) ==
    LET q == stringsToLower(query)
    IN  \/ Contains(stringsToLower(item.Name), q)
        \/ Contains(stringsToLower(item.FullName), q)
        \/ Contains(stringsToLower(item.Comment), q)

\* C27: for a query of at least 2 characters Search returns at most 20
\* results, in descending order of score, each of which matches the query;
\* for a shorter query it returns none.
C27_SearchResultsMatch ==
    lib.fn = "Search" =>
        LET results == lib.out.results
        IN  IF Len(lib.in.query) < 2 THEN results = << >>
            ELSE /\ Len(results) <= MaxResults
                 /\ \A i, j \in DOMAIN results : i < j => results[i].Score >= results[j].Score
                 /\ \A i \in DOMAIN results : Matches(results[i].item, lib.in.query)


\* C28: whenever getRegistry can return (no writer holds s.mu), the pair it
\* returns is consistent: the search index is the one built from exactly
\* the registry it is returned with, also while several SetRegistry calls
\* are under way.
C28_GetRegistryPairConsistent ==
    getRegistryEnabled =>
        /\ getRegistry.searchIndex = BuildSearchIndex(getRegistry.registry)
        /\ getRegistry.searchIndex.of = getRegistry.registry.id

\* C28 witness: getRegistry returns the pair of a reloaded registry after
\* one SetRegistry call has finished, while another call has built its index
\* and waits to store it.
C28_PairReadBetweenSetRegistryCalls ==
    /\ getRegistryEnabled
    /\ getRegistry.registry.id > 0
    /\ \E r \in Reloaders :
          /\ reload[r].pc = "lock"
          /\ reload[r].reg.id # getRegistry.registry.id


\* No file event is queued, no debounce timer is armed and no reload
\* callback is running.
ReloadsCeased ==
    /\ events = 0
    /\ timer = "none"
    /\ \A r \in Reloaders : reload[r].pc = "idle"

\* C29: reloads are applied in the order of the file changes: once the file
\* changes have ceased and every reload has ended, if a registry loaded from
\* the most recent file state was passed to SetRegistry then the registry
\* installed in the server is one loaded from that state; an earlier reload
\* has not overwritten it, also when two reload callbacks overlapped.
C29_LatestReloadWins ==
    (ReloadsCeased /\ \E reg \in handed : reg.ver = fsVersion) =>
        registry.ver = fsVersion


\* An event of a burst: a create, write, remove or rename of a file whose
\* name ends in .proto (in any letter case, as the loader reads such files).
BurstEvent(e) ==
    /\ HasSuffix(stringsToLower(e.event.Name), DotProto)
    /\ e.event.Op \cap {"Create", "Write", "Remove", "Rename"} # {}
\* When the events of bursts arrived, in order.
BurstTimes ==
    LET burst == SelectSeq(watch.log, BurstEvent)
    IN  [i \in DOMAIN burst |-> burst[i].at]
\* The last events of the bursts: no event follows within the debounce time.
BurstEnds ==
    { i \in DOMAIN BurstTimes :
        i = Len(BurstTimes) \/ BurstTimes[i + 1] - BurstTimes[i] >= Debounce }
BurstEnd(j) ==
    CHOOSE i \in BurstEnds : Cardinality({ k \in BurstEnds : k <= i }) = j

====
